---- MODULE Spec2Model ----
(***************************************************************************)
(* A model of the ai-news-aggregator pipeline: the source registry, the    *)
(* ingestion save paths, the digest batch, the relevance ranker and the    *)
(* email composer.  The store is the five tables of app/database/models.py *)
(* with their unique columns; every repository call that commits is one    *)
(* step, so that overlapping runs interleave between a check and the       *)
(* insert that follows it.                                                 *)
(***************************************************************************)
EXTENDS Integers, Sequences, FiniteSets, TLC

\* ------------------------------------------------------------------ bounds
MaxBatch == 2       \* longest list handed to one save call
MaxCalls == 2       \* how often one save call is repeated with the same list
MaxSources == 3     \* sources the registry-only specification creates
MaxRanked == 12     \* most digests handed to one ranking call
MaxStored == 2      \* content rows in the store before one more sequential save call
MaxUsers == 2       \* users the email stage finds

\* ------------------------------------------------------- values and inputs
NULL == "NULL"      \* Python None / SQL NULL of a string column
NoDate == -1        \* a publish date that is None (an entry whose date cannot be parsed)
RSS == "rss"
YOUTUBE == "youtube"

Procs == {1, 2}     \* two pipeline runs (two sessions on the same database)

\* A URL is <<form, rest>>.  Content URLs: pages of a site, and the two forms
\* of a YouTube video link that extract_video_id tells apart.
ArticleURLs == {<<"page", "a1">>, <<"page", "a2">>, <<"watch?v=", "v1">>}
VideoURLs == {<<"watch?v=", "v1">>, <<"youtu.be/", "v1">>, <<"watch?v=", "v2">>}

\* YouTubeService.extract_video_id: the id after "watch?v=" or "youtu.be/",
\* otherwise the argument itself.
extract_video_id(url) ==
    IF url[1] = "watch?v=" THEN url[2]
    ELSE IF url[1] = "youtu.be/" THEN url[2]
    ELSE url[1] \o url[2]

\* Whether the row of the item behind a URL fits the columns of its table
\* (title String(500), url String(1000)): PostgreSQL rejects a longer value
\* when the insert commits.  The entry behind page a2 has an oversized title.
ColumnsFit(url) == url # <<"page", "a2">>

\* The publish hour of the content behind a URL (feed data).
PublishedAt(url) ==
    CASE url = <<"page", "a1">> -> 3
      [] url = <<"page", "a2">> -> 2
      [] url = <<"watch?v=", "v1">> -> 2
      [] url = <<"youtu.be/", "v1">> -> 2
      [] OTHER -> 1

\* app/config.py: the configured channels and feeds.
YOUTUBE_CHANNELS ==
    << [username |-> "h1", name |-> "ch1"], [username |-> "h2", name |-> "ch2"] >>
RSS_FEEDS == { [name |-> "openai", rss_url |-> "feed_openai"] }

\* The channel a fetched video came from: get_channel_videos stamps every entry
\* of a channel's feed with that channel's resolved id and display name.
VideoChannel(url) ==
    IF extract_video_id(url) = "v1"
    THEN [channel_id |-> "UC1", channel_name |-> "ch1"]
    ELSE [channel_id |-> "UC2", channel_name |-> "ch2"]

ChannelUrl(username) == <<"https://www.youtube.com/@", username>>

\* ------------------------------------------------------------------- state
VARIABLES
    sources,    \* table sources: set of rows
    articles,   \* table articles
    videos,     \* table videos
    digests,    \* table digests
    goc,        \* the last SourceRepository.get_or_create call and its outcome
    pc,         \* per run: where it is
    job,        \* per run: the save call it executes (kind, groups)
    gi,         \* per run: index of the channel group being saved
    idx,        \* per run: index of the item within the group
    src,        \* per run: id of the source get_or_create returned
    saved,      \* per run: saved_count
    log,        \* per run: outcome per item of this call so far: skip, ok, fail
    calls,      \* per run: how many times the call was made with this list
    sess,       \* per run: state of its Session: ok or inactive
    todo,       \* per run: articles_to_process + videos_to_process
    dix,        \* per run: index into todo
    successful, \* per run: digest batch counter
    failed,     \* per run: digest batch counter
    selected,   \* per run: total_count of the digest batch
    dlog,       \* per run: outcome per processed item of the batch: ok, raise
    epc,        \* email stage: where the per-user step is
    digest_data,  \* email stage: the digests handed to the ranker
    ranking,    \* email stage: RankingOutput.ranked_items of rank_digests
    ranked_items, \* email stage: the list handed to generate_email_content
    sections,   \* email stage: EmailContent.sections
    introduction, \* email stage: EmailContent.introduction (static or llm)
    users,      \* email stage: how many users get_all returned
    uix,        \* email stage: index of the user being processed
    sent_count, \* email stage: counter
    failed_count, \* email stage: counter
    ulog,       \* email stage: outcome per processed user: sent, failed
    email_env,  \* email stage: which credentials the environment holds
    llm_calls,  \* email stage: calls made to the LLM collaborator
    emails_out, \* email stage: what send_email_digests returned
    rpc,        \* aggregator run of the pipeline process: where run() is
    env,        \* aggregator run: which origin fails while it is fetched
    fetched,    \* aggregator run: results (articles, videos, summary)
    stage,      \* run_daily_pipeline: the stage it is in
    results,    \* run_daily_pipeline: its results dict
    bodies,     \* columns markdown_content / transcript and their *_fetched_at
    clock,      \* datetime.now of the administrative calls
    user_settings, \* table user_settings
    last,       \* the last administrative call and its outcome
    call        \* the last call of a fetcher or formatter: inputs and result

storeVars == <<sources, articles, videos, digests>>
saveVars == <<job, gi, idx, src, saved, log, calls, sess>>
digestVars == <<todo, dix, successful, failed, selected, dlog>>
emailVars == <<epc, digest_data, ranking, ranked_items, sections, introduction,
               users, uix, sent_count, failed_count, ulog, email_env,
               llm_calls, emails_out>>
pipeVars == <<rpc, env, fetched, stage, results>>
adminVars == <<bodies, clock, user_settings, last>>
toolVars == <<call>>
vars == <<sources, articles, videos, digests, goc, pc, job, gi, idx, src, saved,
          log, calls, sess, todo, dix, successful, failed, selected, dlog,
          epc, digest_data, ranking, ranked_items, sections, introduction,
          users, uix, sent_count, failed_count, ulog, email_env, llm_calls,
          emails_out, rpc, env, fetched, stage, results, bodies, clock,
          user_settings, last, call>>

\* ---------------------------------------------------------------- sources
NoSource ==
    [id |-> 0, name |-> NULL, url |-> <<NULL, NULL>>, stype |-> NULL,
     cid |-> NULL, uname |-> NULL, rss |-> NULL]

\* Autoincrement primary key.
NextId(rows) ==
    IF rows = {} THEN 1
    ELSE 1 + (CHOOSE n \in {r.id : r \in rows} : \A r \in rows : r.id <= n)

get_by_url(srcs, url) ==
    IF \E s \in srcs : s.url = url
    THEN CHOOSE s \in srcs : s.url = url ELSE NoSource

get_by_rss_url(srcs, rss) ==
    IF \E s \in srcs : s.rss = rss
    THEN CHOOSE s \in srcs : s.rss = rss ELSE NoSource

get_by_youtube_channel_id(srcs, cid) ==
    IF \E s \in srcs : s.cid = cid
    THEN CHOOSE s \in srcs : s.cid = cid ELSE NoSource

get_by_youtube_username(srcs, uname) ==
    IF \E s \in srcs : s.uname = uname
    THEN CHOOSE s \in srcs : s.uname = uname ELSE NoSource

\* The unique columns of Source: url, and each of youtube_channel_id,
\* youtube_username, rss_url when not NULL.
SourceUnique(srcs, a) ==
    \A s \in srcs :
        /\ s.url # a.url
        /\ a.cid # NULL => s.cid # a.cid
        /\ a.uname # NULL => s.uname # a.uname
        /\ a.rss # NULL => s.rss # a.rss

\* The row SourceRepository.create inserts.
NewSource(srcs, a) ==
    [id |-> NextId(srcs), name |-> a.name, url |-> a.url, stype |-> a.stype,
     cid |-> a.cid, uname |-> a.uname, rss |-> a.rss]

\* Another slip: the feed-URL lookup comes before the URL lookup.
LookupFeedFirst(srcs, a) ==
    IF a.stype = RSS /\ a.rss # NULL /\ get_by_rss_url(srcs, a.rss) # NoSource
    THEN get_by_rss_url(srcs, a.rss)
    ELSE IF get_by_url(srcs, a.url) # NoSource THEN get_by_url(srcs, a.url)
    ELSE IF a.stype = YOUTUBE /\ a.cid # NULL
            /\ get_by_youtube_channel_id(srcs, a.cid) # NoSource
    THEN get_by_youtube_channel_id(srcs, a.cid)
    ELSE IF a.stype = YOUTUBE /\ a.uname # NULL
            /\ get_by_youtube_username(srcs, a.uname) # NoSource
    THEN get_by_youtube_username(srcs, a.uname)
    ELSE NoSource

\* A plausible slip: the channel-id lookup is missing.
LookupNoChannelId(srcs, a) ==
    IF get_by_url(srcs, a.url) # NoSource THEN get_by_url(srcs, a.url)
    ELSE IF a.stype = RSS /\ a.rss # NULL /\ get_by_rss_url(srcs, a.rss) # NoSource
    THEN get_by_rss_url(srcs, a.rss)
    ELSE IF a.stype = YOUTUBE /\ a.uname # NULL
            /\ get_by_youtube_username(srcs, a.uname) # NoSource
    THEN get_by_youtube_username(srcs, a.uname)
    ELSE NoSource

\* The lookups of get_or_create, in its order: the row it returns without
\* creating, NoSource when every lookup misses.
Lookup(srcs, a) ==
    IF get_by_url(srcs, a.url) # NoSource THEN get_by_url(srcs, a.url)
    ELSE IF a.stype = RSS /\ a.rss # NULL /\ get_by_rss_url(srcs, a.rss) # NoSource
    THEN get_by_rss_url(srcs, a.rss)
    ELSE IF a.stype = YOUTUBE /\ a.cid # NULL
            /\ get_by_youtube_channel_id(srcs, a.cid) # NoSource
    THEN get_by_youtube_channel_id(srcs, a.cid)
    ELSE IF a.stype = YOUTUBE /\ a.uname # NULL
            /\ get_by_youtube_username(srcs, a.uname) # NoSource
    THEN get_by_youtube_username(srcs, a.uname)
    ELSE NoSource

RssArgs(name, url, rss) ==
    [name |-> name, url |-> url, stype |-> RSS, cid |-> NULL, uname |-> NULL,
     rss |-> rss]

YoutubeArgs(name, cid, uname) ==
    [name |-> name, url |-> ChannelUrl(uname), stype |-> YOUTUBE, cid |-> cid,
     uname |-> uname, rss |-> NULL]

\* A YouTube source registered under the URL of its channel id.
ChannelIdUrl(cid) == <<"https://www.youtube.com/channel/", cid>>

YoutubeArgsAt(url, name, cid, uname) ==
    [name |-> name, url |-> url, stype |-> YOUTUBE, cid |-> cid,
     uname |-> uname, rss |-> NULL]

NoCall == [args |-> NoSource, pre |-> {}, result |-> NoSource, raised |-> FALSE]

\* One whole get_or_create call with no other session active in between.
\* A failed insert raises IntegrityError to the caller: the method has no
\* handler.
GetOrCreate(a) ==
    LET found == Lookup(sources, a) IN
    IF found # NoSource
    THEN /\ sources' = sources
         /\ goc' = [args |-> a, pre |-> sources, result |-> found, raised |-> FALSE]
    ELSE IF SourceUnique(sources, a)
    THEN /\ Cardinality(sources) < MaxSources
         /\ sources' = sources \cup {NewSource(sources, a)}
         /\ goc' = [args |-> a, pre |-> sources,
                    result |-> NewSource(sources, a), raised |-> FALSE]
    ELSE /\ sources' = sources
         /\ goc' = [args |-> a, pre |-> sources, result |-> NoSource,
                    raised |-> TRUE]

Handles == {"h1", "h2", "h3"}
ChannelIds == {"UC1", "UC2"}
SiteUrls == {<<"https://", "www.anthropic.com">>, <<"https://", "openai.com">>}
FeedUrls == {"feed_anthropic", "feed_openai", "feed_other"}

RegistryCall ==
    /\ \/ \E cid \in ChannelIds, h \in Handles :
              GetOrCreate(YoutubeArgs("channel", cid, h))
       \/ \E cid \in ChannelIds, h \in Handles :
              GetOrCreate(YoutubeArgsAt(ChannelIdUrl(cid), "channel", cid, h))
       \/ \E u \in SiteUrls, f \in FeedUrls : GetOrCreate(RssArgs("site", u, f))
    /\ UNCHANGED <<toolVars, adminVars, pipeVars, emailVars, articles, videos, digests, pc, saveVars, digestVars>>

\* ------------------------------------------------------------- save paths
NoJob == [kind |-> NULL, groups |-> <<>>]

\* ArticleRepository.exists_by_url, with the condition inverted (a slip).
exists_by_url_inverted(arts, url) == ~ \E a \in arts : a.url = url

\* ArticleRepository.exists_by_url
exists_by_url(arts, url) == \E a \in arts : a.url = url

\* VideoRepository.get_by_video_id, as the truth value the caller tests.
get_by_video_id(vids, video_id) == \E v \in vids : v.video_id = video_id

\* The unique column of Article: url.
ArticleUnique(arts, url) == \A a \in arts : a.url # url

\* The unique columns of Video: url and video_id.
VideoUnique(vids, url) ==
    \A v \in vids : v.url # url /\ v.video_id # extract_video_id(url)

\* The rows ArticleRepository.create and VideoRepository.create insert.
NewArticle(arts, source_id, url) ==
    [id |-> NextId(arts), source_id |-> source_id, url |-> url,
     published_at |-> PublishedAt(url)]

NewVideo(vids, source_id, url) ==
    [id |-> NextId(vids), source_id |-> source_id, url |-> url,
     video_id |-> extract_video_id(url), published_at |-> PublishedAt(url)]

\* The except block of a save loop without its db.rollback() (a slip).
NoRollback(s) == s

\* The except block of a save loop: db.rollback() makes the session usable
\* again after a failed commit left it inactive.
Rollback(s) == "ok"

\* The arguments each save path hands to get_or_create.
AnthropicArgs ==
    RssArgs("Anthropic", <<"https://", "www.anthropic.com">>, "feed_anthropic")

OpenAIArgs(feed) == RssArgs(feed.name, <<"https://", "openai.com">>, feed.rss_url)

\* channel_config_map.get(channel_name, default) of _save_youtube_videos.
ChannelConfig(channel_name) ==
    LET hits == {i \in DOMAIN YOUTUBE_CHANNELS :
                    YOUTUBE_CHANNELS[i].name = channel_name} IN
    IF hits # {}
    THEN LET i == CHOOSE i \in hits : \A j \in hits : j <= i IN
         [username |-> YOUTUBE_CHANNELS[i].username,
          name |-> YOUTUBE_CHANNELS[i].name]
    ELSE [username |-> channel_name, name |-> channel_name]

\* The channels dict of _save_youtube_videos: videos grouped by
\* (channel_id, channel_name), groups in order of first appearance.
RECURSIVE GroupByChannel(_)
GroupByChannel(vs) ==
    IF vs = <<>> THEN <<>>
    ELSE LET key == VideoChannel(Head(vs))
             same(u) == VideoChannel(u) = key
             other(u) == VideoChannel(u) # key
             cfg == ChannelConfig(key.channel_name) IN
         << [args |-> YoutubeArgs(cfg.name, key.channel_id, cfg.username),
             items |-> SelectSeq(vs, same)] >>
         \o GroupByChannel(SelectSeq(vs, other))

Batches(S) == UNION {[1..n -> S] : n \in 1..MaxBatch}

\* The save calls NewsAggregator.run makes: each with a non-empty list.
AnthropicJobs ==
    {[kind |-> "anthropic", groups |-> << [args |-> AnthropicArgs, items |-> b] >>] :
        b \in Batches(ArticleURLs)}

OpenAIJobs ==
    {[kind |-> "openai", groups |-> << [args |-> OpenAIArgs(f), items |-> b] >>] :
        f \in RSS_FEEDS, b \in Batches(ArticleURLs)}

YoutubeJobs ==
    {[kind |-> "youtube", groups |-> GroupByChannel(b)] : b \in Batches(VideoURLs)}

SaveJobs == AnthropicJobs \cup OpenAIJobs \cup YoutubeJobs

\* RSS_FEEDS with a second feed configured.
MoreFeeds == RSS_FEEDS \cup { [name |-> "blog", rss_url |-> "feed_other"] }

\* The calls of _save_openai_articles for the feeds of MoreFeeds, one article
\* each.
FeedJobs ==
    {[kind |-> "openai",
      groups |-> << [args |-> OpenAIArgs(f), items |-> <<u>>] >>] :
        f \in MoreFeeds, u \in ArticleURLs}

CurGroup(p) == job[p].groups[gi[p]]
CurUrl(p) == CurGroup(p).items[idx[p]]

RECURSIVE Flatten(_)
Flatten(groups) ==
    IF groups = <<>> THEN <<>> ELSE Head(groups).items \o Flatten(Tail(groups))

\* The list the call was given, in the order the call walks it.
Items(p) == Flatten(job[p].groups)

\* _save_anthropic_articles / _save_openai_articles / _save_youtube_videos are
\* called with a list.
StartSave(p, j) ==
    /\ pc[p] = "idle"
    /\ pc' = [pc EXCEPT ![p] = "get_source"]
    /\ job' = [job EXCEPT ![p] = j]
    /\ gi' = [gi EXCEPT ![p] = 1]
    /\ idx' = [idx EXCEPT ![p] = 1]
    /\ saved' = [saved EXCEPT ![p] = 0]
    /\ log' = [log EXCEPT ![p] = <<>>]
    /\ calls' = [calls EXCEPT ![p] = 1]
    /\ UNCHANGED <<toolVars, adminVars, pipeVars, emailVars, storeVars, goc, src, sess, digestVars>>

\* get_or_create, its lookups: a hit returns the row.
GetSource(p) ==
    /\ pc[p] = "get_source"
    /\ LET found == Lookup(sources, CurGroup(p).args) IN
       IF sess[p] # "ok"
       THEN /\ pc' = [pc EXCEPT ![p] = "raised"]
            /\ src' = src
       ELSE IF found # NoSource
       THEN /\ pc' = [pc EXCEPT ![p] = "check"]
            /\ src' = [src EXCEPT ![p] = found.id]
       ELSE /\ pc' = [pc EXCEPT ![p] = "create_source"]
            /\ src' = src
    /\ UNCHANGED <<toolVars, adminVars, pipeVars, emailVars, storeVars, goc, job, gi, idx, saved, log, calls, sess, digestVars>>

\* get_or_create, after every lookup missed: SourceRepository.create.  A
\* violated unique column makes commit raise; neither create, get_or_create nor
\* the save path around it catches that, so it leaves the save path, and the
\* session stays inactive since nothing rolls it back.
CreateSource(p) ==
    /\ pc[p] = "create_source"
    /\ LET a == CurGroup(p).args IN
       IF SourceUnique(sources, a)
       THEN /\ sources' = sources \cup {NewSource(sources, a)}
            /\ src' = [src EXCEPT ![p] = NextId(sources)]
            /\ pc' = [pc EXCEPT ![p] = "check"]
            /\ sess' = sess
       ELSE /\ sources' = sources
            /\ src' = src
            /\ pc' = [pc EXCEPT ![p] = "raised"]
            /\ sess' = [sess EXCEPT ![p] = "inactive"]
    /\ UNCHANGED <<toolVars, adminVars, pipeVars, emailVars, articles, videos, digests, goc, job, gi, idx,
                   saved, log, calls, digestVars>>

\* The loops of a save path move on: next item, next channel group, or return.
Advance(p) ==
    IF idx[p] < Len(CurGroup(p).items)
    THEN /\ idx' = [idx EXCEPT ![p] = @ + 1]
         /\ gi' = gi
         /\ pc' = [pc EXCEPT ![p] = "check"]
    ELSE IF gi[p] < Len(job[p].groups)
    THEN /\ idx' = [idx EXCEPT ![p] = 1]
         /\ gi' = [gi EXCEPT ![p] = @ + 1]
         /\ pc' = [pc EXCEPT ![p] = "get_source"]
    ELSE /\ idx' = idx
         /\ gi' = gi
         /\ pc' = [pc EXCEPT ![p] = "done"]

ItemExists(p) ==
    IF job[p].kind = "youtube"
    THEN get_by_video_id(videos, extract_video_id(CurUrl(p)))
    ELSE exists_by_url(articles, CurUrl(p))

\* The existence check of one item; an item found is skipped.  A query on an
\* inactive session raises, which the except block of the loop catches.
CheckItem(p) ==
    /\ pc[p] = "check"
    /\ IF sess[p] # "ok"
       THEN /\ log' = [log EXCEPT ![p] = Append(@, "fail")]
            /\ sess' = [sess EXCEPT ![p] = Rollback(@)]
            /\ Advance(p)
       ELSE IF ItemExists(p)
       THEN /\ log' = [log EXCEPT ![p] = Append(@, "skip")]
            /\ sess' = sess
            /\ Advance(p)
       ELSE /\ pc' = [pc EXCEPT ![p] = "insert"]
            /\ UNCHANGED <<log, sess, idx, gi>>
    /\ UNCHANGED <<toolVars, adminVars, pipeVars, emailVars, storeVars, goc, job, src, saved, calls, digestVars>>

InsertOk(p) ==
    /\ sess[p] = "ok"
    /\ ColumnsFit(CurUrl(p))
    /\ IF job[p].kind = "youtube"
       THEN VideoUnique(videos, CurUrl(p))
       ELSE ArticleUnique(articles, CurUrl(p))

\* The create of one item and what follows it in the loop body: the count on
\* success; on a failed commit the except block and on to the next item.
InsertItem(p) ==
    /\ pc[p] = "insert"
    /\ IF InsertOk(p)
       THEN /\ IF job[p].kind = "youtube"
               THEN /\ videos' = videos \cup {NewVideo(videos, src[p], CurUrl(p))}
                    /\ articles' = articles
               ELSE /\ articles' = articles \cup {NewArticle(articles, src[p], CurUrl(p))}
                    /\ videos' = videos
            /\ saved' = [saved EXCEPT ![p] = @ + 1]
            /\ log' = [log EXCEPT ![p] = Append(@, "ok")]
            /\ sess' = sess
       ELSE /\ UNCHANGED <<articles, videos, saved>>
            /\ log' = [log EXCEPT ![p] = Append(@, "fail")]
            /\ sess' = [sess EXCEPT ![p] = Rollback("inactive")]
    /\ Advance(p)
    /\ UNCHANGED <<toolVars, adminVars, pipeVars, emailVars, sources, digests, goc, job, src, calls, digestVars>>

\* The same save path is called again with the same list.
CallAgain(p) ==
    /\ pc[p] = "done"
    /\ calls[p] < MaxCalls
    /\ pc' = [pc EXCEPT ![p] = "get_source"]
    /\ gi' = [gi EXCEPT ![p] = 1]
    /\ idx' = [idx EXCEPT ![p] = 1]
    /\ saved' = [saved EXCEPT ![p] = 0]
    /\ log' = [log EXCEPT ![p] = <<>>]
    /\ calls' = [calls EXCEPT ![p] = @ + 1]
    /\ UNCHANGED <<toolVars, adminVars, pipeVars, emailVars, storeVars, goc, job, src, sess, digestVars>>

\* The run is over (run's finally closes the session); the next run starts
\* with a new session.
EndRun(p) ==
    /\ pc[p] \in {"done", "raised"}
    /\ pc' = [pc EXCEPT ![p] = "idle"]
    /\ job' = [job EXCEPT ![p] = NoJob]
    /\ gi' = [gi EXCEPT ![p] = 1]
    /\ idx' = [idx EXCEPT ![p] = 1]
    /\ src' = [src EXCEPT ![p] = 0]
    /\ saved' = [saved EXCEPT ![p] = 0]
    /\ log' = [log EXCEPT ![p] = <<>>]
    /\ calls' = [calls EXCEPT ![p] = 0]
    /\ sess' = [sess EXCEPT ![p] = "ok"]
    /\ UNCHANGED <<toolVars, adminVars, pipeVars, emailVars, storeVars, goc, digestVars>>

\* ------------------------------------------------------------ digest batch
\* DigestRepository.exists_by_url
digest_exists_by_url(digs, url) == \E d \in digs : d.url = url

\* The hour at which digests are generated and queried: later than every
\* publish hour.
GenerationHour == 4

\* created_at stamped with the time of the call whatever it is given (a slip).
CreatedAtNow(published_at, now) == now

\* published_at if published_at else datetime.now(timezone.utc)
CreatedAt(published_at, now) ==
    IF published_at # NoDate THEN published_at ELSE now

\* The row DigestRepository.create inserts: created_at is the published_at it
\* is given.  The table has no unique column besides its key.
NewDigest(digs, item) ==
    [id |-> NextId(digs), url |-> item.url, content_type |-> item.ctype,
     item_id |-> item.id,
     created_at |-> CreatedAt(item.published_at, GenerationHour)]

\* The windows handed to get_recent, in hours.
RecentWindows == {1, 2, 3}

\* DigestRepository.get_recent without limit: the digests created at or after
\* now - hours.
get_recent(digs, hours, now) == {d \in digs : d.created_at >= now - hours}

\* ArticleRepository.get_all / VideoRepository.get_all: every row, newest
\* published first (rows published in the same hour in either order).
Orderings(rows) ==
    {s \in [1..Cardinality(rows) -> rows] :
        /\ \A i, j \in DOMAIN s : i < j => s[i] # s[j]
        /\ \A i, j \in DOMAIN s : i < j => s[i].published_at >= s[j].published_at}

\* articles_to_process / videos_to_process: the rows whose URL has no digest
\* when the batch starts.
ToProcess(rows, ctype, digs) ==
    LET nodigest(r) == ~digest_exists_by_url(digs, r.url)
        kept == SelectSeq(rows, nodigest) IN
    [i \in 1..Len(kept) |->
        [ctype |-> ctype, id |-> kept[i].id, url |-> kept[i].url,
         published_at |-> kept[i].published_at]]

\* process_item without its handler: a failure ends the batch (a slip).
AfterItemAbort(ix, n, ok) == IF ok /\ ix < n THEN "d_item" ELSE "d_done"

\* The loops over articles_to_process and videos_to_process around
\* process_item: whatever the item's outcome, the next item follows.
AfterItem(ix, n, ok) == IF ix < n THEN "d_item" ELSE "d_done"

\* generate_digests / process_digests up to the loops: both lists are filtered
\* here, once, before any item is processed.
StartDigest(p) ==
    /\ pc[p] = "idle"
    /\ \E arts \in Orderings(articles), vids \in Orderings(videos) :
          LET t == ToProcess(arts, "article", digests)
                       \o ToProcess(vids, "video", digests) IN
          /\ todo' = [todo EXCEPT ![p] = t]
          /\ selected' = [selected EXCEPT ![p] = Len(t)]
          /\ pc' = [pc EXCEPT ![p] = IF Len(t) = 0 THEN "d_done" ELSE "d_item"]
    /\ dix' = [dix EXCEPT ![p] = 1]
    /\ successful' = [successful EXCEPT ![p] = 0]
    /\ failed' = [failed EXCEPT ![p] = 0]
    /\ dlog' = [dlog EXCEPT ![p] = <<>>]
    /\ UNCHANGED <<toolVars, adminVars, pipeVars, emailVars, storeVars, goc, saveVars>>

\* process_item for the next item: the summarizer returns and the digest is
\* created and counted, or it raises and the item is counted as failed.
ProcessItem(p) ==
    /\ pc[p] = "d_item"
    /\ \E ok \in BOOLEAN :
          /\ IF ok
             THEN /\ digests' = digests \cup {NewDigest(digests, todo[p][dix[p]])}
                  /\ successful' = [successful EXCEPT ![p] = @ + 1]
                  /\ failed' = failed
                  /\ dlog' = [dlog EXCEPT ![p] = Append(@, "ok")]
             ELSE /\ digests' = digests
                  /\ successful' = successful
                  /\ failed' = [failed EXCEPT ![p] = @ + 1]
                  /\ dlog' = [dlog EXCEPT ![p] = Append(@, "raise")]
          /\ pc' = [pc EXCEPT ![p] = AfterItem(dix[p], Len(todo[p]), ok)]
    /\ dix' = [dix EXCEPT ![p] = @ + 1]
    /\ UNCHANGED <<toolVars, adminVars, pipeVars, emailVars, sources, articles, videos, goc, saveVars, todo, selected>>

\* The batch returns (successful, failed) and closes its session.
EndDigest(p) ==
    /\ pc[p] = "d_done"
    /\ pc' = [pc EXCEPT ![p] = "idle"]
    /\ todo' = [todo EXCEPT ![p] = <<>>]
    /\ dix' = [dix EXCEPT ![p] = 1]
    /\ successful' = [successful EXCEPT ![p] = 0]
    /\ failed' = [failed EXCEPT ![p] = 0]
    /\ selected' = [selected EXCEPT ![p] = 0]
    /\ dlog' = [dlog EXCEPT ![p] = <<>>]
    /\ UNCHANGED <<toolVars, adminVars, pipeVars, emailVars, storeVars, goc, saveVars>>

\* -------------------------------------------------------------- email stage

\* EmailAgent.generate_email_content and send_email_digests keep the first ten.
TopN == 10

Min(a, b) == IF a < b THEN a ELSE b

\* digest_data of send_email_digests for n recent digests: one dict per digest
\* row; digest k has URL k, odd ones are article digests.
DigestData(n) ==
    [k \in 1..n |-> [id |-> k, url |-> k,
                     content_type |-> IF k % 2 = 1 THEN "article" ELSE "video"]]

\* A URL the ranking collaborator made up: it is the URL of no digest.
ForeignUrl == 0

\* What the ranking collaborator can put into RankingOutput for n digests: m
\* items, laid out in an order, with rank values and URLs of some kind.
ReplyOrders == {"asc", "desc", "rot"}
ReplyRanks == {"perm", "inv", "dup", "gap"}
ReplyUrls == {"own", "repeat", "foreign"}

Slot(order, m, k) ==
    CASE order = "asc" -> k
      [] order = "desc" -> m + 1 - k
      [] order = "rot" -> (k % m) + 1

RankOf(ranks, m, s) ==
    CASE ranks = "perm" -> s
      [] ranks = "inv" -> m + 1 - s
      [] ranks = "dup" -> 1
      [] ranks = "gap" -> 2 * s

UrlOf(urls, data, s) ==
    CASE urls = "own" -> IF s <= Len(data) THEN data[s].url ELSE ForeignUrl
      [] urls = "repeat" -> data[1].url
      [] urls = "foreign" -> ForeignUrl

Reply(data, m, order, ranks, urls) ==
    [k \in 1..m |-> [url |-> UrlOf(urls, data, Slot(order, m, k)),
                     rank |-> RankOf(ranks, m, Slot(order, m, k))]]

Replies(data) ==
    {Reply(data, m, o, r, u) :
        m \in 0..(Len(data) + 1), o \in ReplyOrders, r \in ReplyRanks,
        u \in ReplyUrls}

\* NewsAnchorAgent.rank_digests: the ranked lists it can return for a digest
\* list.  Empty input returns the empty list; otherwise whatever was parsed
\* from the collaborator's reply is returned as it is.
rank_digests(data) == IF data = <<>> THEN {<<>>} ELSE Replies(data)

\* next((d['content_type'] for d in digest_data if d['url'] == url), "unknown")
ContentTypeOf(data, url) ==
    IF \E k \in DOMAIN data : data[k].url = url
    THEN LET first == CHOOSE k \in DOMAIN data :
                 /\ data[k].url = url
                 /\ \A i \in DOMAIN data : data[i].url = url => k <= i
         IN data[first].content_type
    ELSE "unknown"

\* The ranked_items list send_email_digests builds from ranking.ranked_items.
PrepareRankedItems(data, items) ==
    [k \in 1..Min(TopN, Len(items)) |->
        [rank |-> items[k].rank, url |-> items[k].url,
         content_type |-> ContentTypeOf(data, items[k].url)]]

\* top_items of generate_email_content, and the sections built from them.
TopItems(items) == SubSeq(items, 1, Min(TopN, Len(items)))

Sections(top_items) ==
    [k \in DOMAIN top_items |->
        [rank |-> top_items[k].rank, url |-> top_items[k].url,
         content_type |-> top_items[k].content_type]]

\* EmailAgent.generate_introduction: the static sentence for an empty list,
\* else the collaborator's text.
generate_introduction(items) == IF items = <<>> THEN "static" ELSE "llm"

\* rank_digests without its early return: the collaborator is always asked
\* (a slip).
RankCallsAlways(data) == 1

\* How many calls rank_digests makes to the ranking collaborator.
RankCalls(data) == IF data = <<>> THEN 0 ELSE 1

\* The environment of the email step: whether OPENAI_API_KEY and the SMTP
\* credentials are set.
EmailEnvs == [openai : BOOLEAN, smtp : BOOLEAN]

Returned(sent, failed_n, total) ==
    << [sent |-> sent, failed |-> failed_n, total |-> total] >>

\* The per-user loop without its try: the first failed user ends it (a slip).
AfterUserAbort(ix, n, outcome) ==
    IF outcome = "sent" /\ ix < n THEN "rank" ELSE "returned"

\* for user in users: whatever happened to a user, the next one follows.
AfterUser(ix, n, outcome) == IF ix < n THEN "rank" ELSE "returned"

\* send_email_digests up to its loop: no user, agents that cannot be
\* initialised, or no recent digest make it return at once.
SendEmailDigests(data, n_users, e) ==
    /\ epc = "idle"
    /\ email_env' = e
    /\ users' = n_users
    /\ IF n_users = 0
       THEN /\ epc' = "returned"
            /\ emails_out' = Returned(0, 0, 0)
            /\ digest_data' = <<>>
       ELSE IF ~e.openai \/ data = <<>>
       THEN /\ epc' = "returned"
            /\ emails_out' = Returned(0, 0, n_users)
            /\ digest_data' = <<>>
       ELSE /\ epc' = "rank"
            /\ emails_out' = <<>>
            /\ digest_data' = data
    /\ uix' = 1
    /\ sent_count' = 0
    /\ failed_count' = 0
    /\ ulog' = <<>>
    /\ llm_calls' = 0
    /\ ranking' = <<>>
    /\ ranked_items' = <<>>
    /\ sections' = <<>>
    /\ introduction' = NULL
    /\ UNCHANGED <<toolVars, adminVars, pipeVars, storeVars, goc, pc, saveVars, digestVars>>

\* send_email_digests found u users and n recent digests.
StartEmail ==
    \E n \in 0..MaxRanked, u \in 0..MaxUsers, e \in EmailEnvs :
        SendEmailDigests(DigestData(n), u, e)

\* except Exception in the loop: the user is counted as failed.
UserFailed ==
    /\ failed_count' = failed_count + 1
    /\ ulog' = Append(ulog, "failed")
    /\ epc' = "failed"

\* The user's ranking: rank_digests returns and the top of the list is
\* prepared, or the call raises.
RankDigests ==
    /\ epc = "rank"
    /\ \E ok \in BOOLEAN :
          IF ok
          THEN /\ \E reply \in rank_digests(digest_data) :
                     /\ ranking' = reply
                     /\ ranked_items' = PrepareRankedItems(digest_data, reply)
               /\ epc' = "compose"
               /\ UNCHANGED <<failed_count, ulog>>
          ELSE /\ UserFailed
               /\ UNCHANGED <<ranking, ranked_items>>
    /\ llm_calls' = llm_calls + RankCalls(digest_data)
    /\ UNCHANGED <<toolVars, adminVars, pipeVars, storeVars, goc, pc, saveVars, digestVars,
                   digest_data, sections, users, uix, sent_count, email_env,
                   introduction, emails_out>>

\* generate_email_content: raises ValueError on an empty list; else asks for
\* the introduction (that call can raise) and builds the sections in the
\* order of the list.
ComposeEmail ==
    /\ epc = "compose"
    /\ IF TopItems(ranked_items) = <<>>
       THEN /\ UserFailed
            /\ UNCHANGED <<sections, introduction, llm_calls>>
       ELSE /\ llm_calls' = llm_calls + 1
            /\ \E ok \in BOOLEAN :
                  IF ok
                  THEN /\ epc' = "composed"
                       /\ introduction' =
                              generate_introduction(TopItems(ranked_items))
                       /\ sections' = Sections(TopItems(ranked_items))
                       /\ UNCHANGED <<failed_count, ulog>>
                  ELSE /\ UserFailed
                       /\ UNCHANGED <<sections, introduction>>
    /\ UNCHANGED <<toolVars, adminVars, pipeVars, storeVars, goc, pc, saveVars, digestVars,
                   digest_data, ranking, ranked_items, users, uix, sent_count,
                   email_env, emails_out>>

\* EmailAgent.send_email: SMTPService() raises without the SMTP credentials;
\* else the message is sent or the sending raises.
SendEmail ==
    /\ epc = "composed"
    /\ \E ok \in BOOLEAN :
          IF email_env.smtp /\ ok
          THEN /\ sent_count' = sent_count + 1
               /\ ulog' = Append(ulog, "sent")
               /\ epc' = "sent"
               /\ UNCHANGED failed_count
          ELSE /\ UserFailed
               /\ UNCHANGED sent_count
    /\ UNCHANGED <<toolVars, adminVars, pipeVars, storeVars, goc, pc, saveVars, digestVars,
                   digest_data, ranking, ranked_items, sections, users, uix,
                   email_env, llm_calls, introduction, emails_out>>

\* The loop goes on to the next user, or send_email_digests returns its
\* counts.
NextUser ==
    /\ epc \in {"sent", "failed"}
    /\ epc' = AfterUser(uix, users, epc)
    /\ IF epc' = "rank"
       THEN /\ uix' = uix + 1
            /\ emails_out' = emails_out
       ELSE /\ uix' = uix
            /\ emails_out' = Returned(sent_count, failed_count, users)
    /\ ranking' = <<>>
    /\ ranked_items' = <<>>
    /\ sections' = <<>>
    /\ introduction' = NULL
    /\ UNCHANGED <<toolVars, adminVars, pipeVars, storeVars, goc, pc, saveVars, digestVars,
                   digest_data, users, sent_count, failed_count, ulog,
                   email_env, llm_calls>>

NoEmailEnv == [openai |-> TRUE, smtp |-> TRUE]

\* send_email_digests has returned; the caller has its counts.
EndEmail ==
    /\ epc = "returned"
    /\ stage = "none"
    /\ epc' = "idle"
    /\ digest_data' = <<>>
    /\ ranking' = <<>>
    /\ ranked_items' = <<>>
    /\ sections' = <<>>
    /\ users' = 0
    /\ uix' = 1
    /\ sent_count' = 0
    /\ failed_count' = 0
    /\ ulog' = <<>>
    /\ email_env' = NoEmailEnv
    /\ llm_calls' = 0
    /\ introduction' = NULL
    /\ emails_out' = <<>>
    /\ UNCHANGED <<toolVars, adminVars, pipeVars, storeVars, goc, pc, saveVars, digestVars>>

\* A direct call of NewsAnchorAgent.rank_digests with n digests, as the
\* ranking scripts make it.
RankOnly ==
    /\ epc = "idle"
    /\ \E n \in 0..MaxRanked :
          /\ digest_data' = DigestData(n)
          /\ llm_calls' = RankCalls(DigestData(n))
          /\ \E reply \in rank_digests(DigestData(n)) : ranking' = reply
    /\ epc' = "ranked"
    /\ UNCHANGED <<toolVars, adminVars, pipeVars, storeVars, goc, pc, saveVars, digestVars,
                   ranked_items, sections, users, uix, sent_count,
                   failed_count, ulog, email_env, introduction, emails_out>>

\* The caller has the ranking.
RankReturns ==
    /\ epc = "ranked"
    /\ epc' = "idle"
    /\ digest_data' = <<>>
    /\ ranking' = <<>>
    /\ llm_calls' = 0
    /\ UNCHANGED <<toolVars, adminVars, pipeVars, storeVars, goc, pc, saveVars, digestVars,
                   ranked_items, sections, users, uix, sent_count,
                   failed_count, ulog, email_env, introduction, emails_out>>

\* ----------------------------------------------------------- aggregator run

\* The process whose aggregator run and pipeline are followed step by step.
Runner == 1

\* AnthropicNewsScraper.FEEDS, in dict order.
AnthropicFEEDS == <<"news", "engineering", "research", "red">>

OpenAIFeed == CHOOSE f \in RSS_FEEDS : TRUE

\* Every origin a run fetches: Anthropic sub-feeds, RSS feeds, channels.
Origins ==
    {AnthropicFEEDS[i] : i \in DOMAIN AnthropicFEEDS}
        \cup {f.name : f \in RSS_FEEDS}
        \cup {YOUTUBE_CHANNELS[i].username : i \in DOMAIN YOUTUBE_CHANNELS}

\* The entries of each origin's feed that lie in the window, in feed order.
FeedEntries(o) ==
    CASE o = "news" -> << <<"page", "a1">>, <<"page", "a2">> >>
      [] o = "engineering" -> << <<"watch?v=", "v1">> >>
      [] o = "openai" -> << <<"page", "a1">> >>
      [] o = "h1" -> << <<"watch?v=", "v1">>, <<"youtu.be/", "v1">> >>
      [] o = "h2" -> << <<"watch?v=", "v2">> >>
      [] OTHER -> << >>

\* What can go wrong while an origin is fetched: nothing, or an exception
\* after so many of its entries were processed (0: the parse itself raises).
NoError == -1

Max(a, b) == IF a > b THEN a ELSE b

Envs ==
    LET positions == UNION {0..(Len(FeedEntries(o)) - 1) : o \in Origins} IN
    {e \in [Origins -> {NoError, 0} \cup positions] :
        \A o \in Origins : e[o] <= Max(0, Len(FeedEntries(o)) - 1)}

\* A fetched item: its URL and the origin it is stamped with (feed_type,
\* source_name, channel_name).
Item(o, url) == [url |-> url, origin |-> o]

Tagged(o, urls) == [k \in DOMAIN urls |-> Item(o, urls[k])]

Urls(items) == [k \in DOMAIN items |-> items[k].url]

\* list.sort(key=published_at, reverse=True): newest first, stable.
InsertNewestFirst(x, s) ==
    LET n == Cardinality({i \in DOMAIN s :
                 PublishedAt(s[i].url) > PublishedAt(x.url)}) IN
    SubSeq(s, 1, n) \o <<x>> \o SubSeq(s, n + 1, Len(s))

RECURSIVE SortNewestFirst(_)
SortNewestFirst(s) ==
    IF s = <<>> THEN <<>>
    ELSE InsertNewestFirst(Head(s), SortNewestFirst(Tail(s)))

\* One sub-feed in AnthropicNewsScraper.get_articles: entries are appended to
\* all_articles inside the try, so what was appended before an exception stays.
AnthropicFeedItems(o, e) ==
    IF e[o] = NoError THEN Tagged(o, FeedEntries(o))
    ELSE Tagged(o, SubSeq(FeedEntries(o), 1, e[o]))

RECURSIVE AnthropicCollect(_, _)
AnthropicCollect(i, e) ==
    IF i > Len(AnthropicFEEDS) THEN <<>>
    ELSE AnthropicFeedItems(AnthropicFEEDS[i], e) \o AnthropicCollect(i + 1, e)

\* AnthropicNewsScraper.get_articles
AnthropicGetArticles(e) == SortNewestFirst(AnthropicCollect(1, e))

\* OpenAINewsScraper.get_articles: raises as a whole, or returns the entries
\* in feed order.
OpenAIRaises(feed, e) == e[feed.name] # NoError

OpenAIGetArticles(feed, e) == Tagged(feed.name, FeedEntries(feed.name))

\* YouTubeService.get_channel_videos as get_multiple_channels sees it: the
\* videos of the channel, or nothing when it raised or caught an exception.
ChannelVideos(o, e) ==
    IF e[o] = NoError THEN Tagged(o, FeedEntries(o)) ELSE <<>>

\* get_multiple_channels without its per-channel try: the first channel that
\* raises ends the loop (a slip).
RECURSIVE ChannelsCollectAbort(_, _)
ChannelsCollectAbort(i, e) ==
    IF i > Len(YOUTUBE_CHANNELS) \/ e[YOUTUBE_CHANNELS[i].username] # NoError
    THEN <<>>
    ELSE ChannelVideos(YOUTUBE_CHANNELS[i].username, e)
             \o ChannelsCollectAbort(i + 1, e)

RECURSIVE ChannelsCollect(_, _)
ChannelsCollect(i, e) ==
    IF i > Len(YOUTUBE_CHANNELS) THEN <<>>
    ELSE ChannelVideos(YOUTUBE_CHANNELS[i].username, e)
             \o ChannelsCollect(i + 1, e)

\* YouTubeService.get_multiple_channels
get_multiple_channels(e) == SortNewestFirst(ChannelsCollect(1, e))

\* results of NewsAggregator.run before anything was fetched.
NoResults == [articles |-> <<>>, videos |-> <<>>, summary |-> {}]

\* results["summary"][name] = n
SetSummary(summary, name, n) ==
    {s \in summary : s[1] # name} \cup {<<name, n>>}

\* The save call run makes for the list it just fetched.
JobFor(origin_kind, e) ==
    CASE origin_kind = "anthropic" ->
             [kind |-> "anthropic",
              groups |-> << [args |-> AnthropicArgs,
                             items |-> Urls(AnthropicGetArticles(e))] >>]
      [] origin_kind = "openai" ->
             [kind |-> "openai",
              groups |-> << [args |-> OpenAIArgs(OpenAIFeed),
                             items |-> Urls(OpenAIGetArticles(OpenAIFeed, e))] >>]
      [] origin_kind = "youtube" ->
             [kind |-> "youtube",
              groups |-> GroupByChannel(Urls(get_multiple_channels(e)))]

\* NewsAggregator.run starts: results is empty, a session is opened.
RunAggregator(e) ==
    /\ rpc = "off"
    /\ pc[Runner] = "idle"
    /\ env' = e
    /\ rpc' = "anthropic"
    /\ fetched' = NoResults
    /\ UNCHANGED <<toolVars, adminVars, stage, results, emailVars, storeVars, goc, pc, saveVars,
                   digestVars>>

\* run_aggregator called on its own, in any world.
StartRun ==
    /\ stage = "none"
    /\ rpc = "off"
    /\ \E e \in Envs : RunAggregator(e)

\* run fetches the Anthropic articles; a non-empty list is saved next.
FetchAnthropic ==
    /\ rpc = "anthropic"
    /\ LET found == AnthropicGetArticles(env) IN
       /\ fetched' = [fetched EXCEPT
              !.articles = @ \o found,
              !.summary = SetSummary(@, "anthropic", Len(found))]
       /\ rpc' = IF found # <<>> THEN "anthropic_save" ELSE "openai"
    /\ UNCHANGED <<toolVars, adminVars, env, stage, results, emailVars, storeVars, goc, pc, saveVars,
                   digestVars>>

\* run fetches the RSS feed inside its try; an exception sets the summary
\* to 0 and run goes on.
FetchOpenAI ==
    /\ rpc = "openai"
    /\ IF OpenAIRaises(OpenAIFeed, env)
       THEN /\ fetched' = [fetched EXCEPT
                   !.summary = SetSummary(@, OpenAIFeed.name, 0)]
            /\ rpc' = "youtube"
       ELSE LET found == OpenAIGetArticles(OpenAIFeed, env) IN
            /\ fetched' = [fetched EXCEPT
                   !.articles = @ \o found,
                   !.summary = SetSummary(@, OpenAIFeed.name, Len(found))]
            /\ rpc' = IF found # <<>> THEN "openai_save" ELSE "youtube"
    /\ UNCHANGED <<toolVars, adminVars, env, stage, results, emailVars, storeVars, goc, pc, saveVars,
                   digestVars>>

\* run fetches the channels' videos.
FetchYoutube ==
    /\ rpc = "youtube"
    /\ LET found == get_multiple_channels(env) IN
       /\ fetched' = [fetched EXCEPT
              !.videos = @ \o found,
              !.summary = SetSummary(@, "youtube", Len(found))]
       /\ rpc' = IF found # <<>> THEN "youtube_save" ELSE "sort"
    /\ UNCHANGED <<toolVars, adminVars, env, stage, results, emailVars, storeVars, goc, pc, saveVars,
                   digestVars>>

\* run calls the save path for the list it fetched.
SaveFetched ==
    /\ rpc \in {"anthropic_save", "openai_save", "youtube_save"}
    /\ StartSave(Runner,
           JobFor(CASE rpc = "anthropic_save" -> "anthropic"
                    [] rpc = "openai_save" -> "openai"
                    [] rpc = "youtube_save" -> "youtube", env))

\* The save path is left.  An exception out of the Anthropic save path leaves
\* run; one out of the other save paths is caught by the try around that
\* origin, which sets the summary to 0.  The session stays as the save path
\* left it.
SaveReturns ==
    /\ rpc \in {"anthropic_save", "openai_save", "youtube_save"}
    /\ pc[Runner] \in {"done", "raised"}
    /\ rpc' = CASE rpc = "anthropic_save" ->
                       IF pc[Runner] = "raised" THEN "raised" ELSE "openai"
                [] rpc = "openai_save" -> "youtube"
                [] rpc = "youtube_save" -> "sort"
    /\ fetched' =
           IF pc[Runner] = "raised" /\ rpc = "openai_save"
           THEN [fetched EXCEPT !.summary = SetSummary(@, OpenAIFeed.name, 0)]
           ELSE IF pc[Runner] = "raised" /\ rpc = "youtube_save"
           THEN [fetched EXCEPT !.summary = SetSummary(@, "youtube", 0)]
           ELSE fetched
    /\ pc' = [pc EXCEPT ![Runner] = "idle"]
    /\ job' = [job EXCEPT ![Runner] = NoJob]
    /\ gi' = [gi EXCEPT ![Runner] = 1]
    /\ idx' = [idx EXCEPT ![Runner] = 1]
    /\ src' = [src EXCEPT ![Runner] = 0]
    /\ saved' = [saved EXCEPT ![Runner] = 0]
    /\ log' = [log EXCEPT ![Runner] = <<>>]
    /\ calls' = [calls EXCEPT ![Runner] = 0]
    /\ UNCHANGED <<toolVars, adminVars, env, stage, results, emailVars, storeVars, goc, sess,
                   digestVars>>

\* run sorts both lists, returns results; its finally closes the session.
ReturnRun ==
    /\ rpc = "sort"
    /\ fetched' = [fetched EXCEPT
           !.articles = SortNewestFirst(@), !.videos = SortNewestFirst(@)]
    /\ rpc' = "returned"
    /\ sess' = [sess EXCEPT ![Runner] = "ok"]
    /\ UNCHANGED <<toolVars, adminVars, env, stage, results, emailVars, storeVars, goc, pc, job, gi,
                   idx, src, saved, log, calls, digestVars>>

\* The caller has the outcome of run_aggregator (results or the exception,
\* after the finally closed the session); the next run is a new one.
LeaveRun ==
    /\ rpc \in {"returned", "raised"}
    /\ stage = "none"
    /\ rpc' = "off"
    /\ env' = [o \in Origins |-> NoError]
    /\ fetched' = NoResults
    /\ sess' = [sess EXCEPT ![Runner] = "ok"]
    /\ UNCHANGED <<toolVars, adminVars, stage, results, emailVars, storeVars, goc, pc, job, gi, idx,
                   src, saved, log, calls, digestVars>>

\* ------------------------------------------------------------ the pipeline

\* results of run_daily_pipeline when it starts: every stage is None.  A
\* stage's entry is <<>> while it is None, else the one value it was given.
NoPipelineResults ==
    [scraping |-> <<>>, digests |-> <<>>, emails |-> <<>>, success |-> FALSE]

\* The worlds the pipeline is run in: the feed of the RSS source may fail.
PipeEnvs ==
    {[o \in Origins |-> IF o = OpenAIFeed.name THEN x ELSE NoError] :
        x \in {NoError, 0}}

\* The users and the credentials the pipeline's email stage finds.
PipeUsers == 1

\* run_daily_pipeline(skip_scraping): results starts with every stage None.
StartPipeline ==
    /\ stage = "none"
    /\ rpc = "off"
    /\ pc[Runner] = "idle"
    /\ epc = "idle"
    /\ \E skip_scraping \in BOOLEAN :
          stage' = IF skip_scraping THEN "digests" ELSE "scraping"
    /\ results' = NoPipelineResults
    /\ UNCHANGED <<toolVars, adminVars, rpc, env, fetched, emailVars, storeVars, goc, pc, saveVars,
                   digestVars>>

\* Step 1: scrape_and_save calls run_aggregator.
ScrapeAndSave ==
    /\ stage = "scraping"
    /\ \E e \in PipeEnvs : RunAggregator(e)

\* scrape_and_save returns the results of run_aggregator, or None when it
\* raised; on None run_daily_pipeline returns its results at once.
ScrapeReturns ==
    /\ stage = "scraping"
    /\ rpc \in {"returned", "raised"}
    /\ IF rpc = "returned"
       THEN /\ results' = [results EXCEPT !.scraping = <<fetched.summary>>]
            /\ stage' = "digests"
       ELSE /\ results' = results
            /\ stage' = "stopped"
    /\ rpc' = "off"
    /\ env' = [o \in Origins |-> NoError]
    /\ fetched' = NoResults
    /\ sess' = [sess EXCEPT ![Runner] = "ok"]
    /\ UNCHANGED <<toolVars, adminVars, emailVars, storeVars, goc, pc, job, gi, idx, src, saved,
                   log, calls, digestVars>>

\* Step 2: generate_digests.
GenerateDigests ==
    /\ stage = "digests"
    /\ StartDigest(Runner)

\* generate_digests returns (successful, failed), which go into results.
DigestsReturn ==
    /\ stage = "digests"
    /\ pc[Runner] = "d_done"
    /\ results' = [results EXCEPT !.digests =
           << [successful |-> successful[Runner], failed |-> failed[Runner]] >>]
    /\ stage' = "emails"
    /\ pc' = [pc EXCEPT ![Runner] = "idle"]
    /\ todo' = [todo EXCEPT ![Runner] = <<>>]
    /\ dix' = [dix EXCEPT ![Runner] = 1]
    /\ successful' = [successful EXCEPT ![Runner] = 0]
    /\ failed' = [failed EXCEPT ![Runner] = 0]
    /\ selected' = [selected EXCEPT ![Runner] = 0]
    /\ dlog' = [dlog EXCEPT ![Runner] = <<>>]
    /\ UNCHANGED <<toolVars, adminVars, rpc, env, fetched, emailVars, storeVars, goc, saveVars>>

\* Step 3: send_email_digests over the digests of the store.
SendEmails ==
    /\ stage = "emails"
    /\ \E e \in EmailEnvs :
          SendEmailDigests(DigestData(Cardinality(digests)), PipeUsers, e)

\* send_email_digests returns its counts; the pipeline reports success.
EmailsReturn ==
    /\ stage = "emails"
    /\ epc = "returned"
    /\ results' = [results EXCEPT !.emails = emails_out, !.success = TRUE]
    /\ stage' = "finished"
    /\ epc' = "idle"
    /\ digest_data' = <<>>
    /\ ranking' = <<>>
    /\ ranked_items' = <<>>
    /\ sections' = <<>>
    /\ users' = 0
    /\ uix' = 1
    /\ sent_count' = 0
    /\ failed_count' = 0
    /\ ulog' = <<>>
    /\ email_env' = NoEmailEnv
    /\ llm_calls' = 0
    /\ introduction' = NULL
    /\ emails_out' = <<>>
    /\ UNCHANGED <<toolVars, adminVars, rpc, env, fetched, storeVars, goc, pc, saveVars, digestVars>>

\* The caller has the results of run_daily_pipeline.
EndPipeline ==
    /\ stage \in {"finished", "stopped"}
    /\ stage' = "none"
    /\ results' = NoPipelineResults
    /\ UNCHANGED <<toolVars, adminVars, rpc, env, fetched, emailVars, storeVars, goc, pc, saveVars,
                   digestVars>>

\* ------------------------------------------------ administrative operations

MaxClock == 2       \* body backfill calls in one behaviour
Limits == {0, 1, 2} \* the limits handed to a get_without_* query
MaxProfileCalls == 2  \* create_or_update calls in one behaviour

Never == -1         \* a *_fetched_at column that is NULL

Texts == {"t1", "t2"}

NoAdminCall == [op |-> "none"]

\* The body columns of a row: markdown_content and markdown_fetched_at of an
\* article, transcript and transcript_fetched_at of a video; NULL when the
\* row was never backfilled.
BodyOf(bods, table, id) ==
    IF \E b \in bods : b.table = table /\ b.id = id
    THEN LET b == CHOOSE b \in bods : b.table = table /\ b.id = id IN
         [text |-> b.text, at |-> b.at]
    ELSE [text |-> NULL, at |-> Never]

Table(table) == IF table = "videos" THEN videos ELSE articles

\* filter(markdown_content.is_(None)) / filter(transcript.is_(None))
MissingBody(rows, bods, table) ==
    {r \in rows : BodyOf(bods, table, r.id).text = NULL}

\* if limit: query.limit(limit).  No limit is 0 here, as None and 0 are to
\* the code.
Limited(s, limit) ==
    IF limit = 0 \/ limit >= Len(s) THEN s ELSE SubSeq(s, 1, limit)

\* ArticleRepository.get_without_markdown / VideoRepository.
\* get_without_transcript: the rows without body, newest published first,
\* at most limit of them; every list the database may return.
get_without_body(rows, bods, table, limit) ==
    {Limited(s, limit) : s \in Orderings(MissingBody(rows, bods, table))}

\* A backfill that leaves a stored body alone (a slip).
update_body_once(bods, table, id, text, now) ==
    IF \E b \in bods : b.table = table /\ b.id = id
    THEN bods
    ELSE bods \cup {[table |-> table, id |-> id, text |-> text, at |-> now]}

\* update_markdown / update_transcript on a row that exists: the body and
\* its fetched-at stamp are set.
update_body(bods, table, id, text, now) ==
    {b \in bods : ~(b.table = table /\ b.id = id)}
        \cup {[table |-> table, id |-> id, text |-> text, at |-> now]}

\* One call of a get_without_* query.
GetWithoutBody(table) ==
    /\ \E limit \in Limits :
       \E res \in get_without_body(Table(table), bodies, table, limit) :
          last' = [op |-> "get_without", table |-> table, limit |-> limit,
                   result |-> [i \in DOMAIN res |-> res[i].id],
                   missing |-> {r.id : r \in
                                   MissingBody(Table(table), bodies, table)}]
    /\ UNCHANGED <<toolVars, bodies, clock, user_settings, pipeVars, emailVars,
                   storeVars, goc, pc, saveVars, digestVars>>

GetWithoutMarkdown == GetWithoutBody("articles")

GetWithoutTranscript == GetWithoutBody("videos")

\* One call of update_markdown / update_transcript: get_by_id, and when the
\* row exists the body and its stamp are written.  id 0 is the id of no row.
UpdateBody(table) ==
    /\ clock < MaxClock
    /\ \E id \in {r.id : r \in Table(table)} \cup {0}, text \in Texts :
          LET found == \E r \in Table(table) : r.id = id IN
          /\ bodies' = IF found
                       THEN update_body(bodies, table, id, text, clock)
                       ELSE bodies
          /\ last' = [op |-> "update", table |-> table, id |-> id,
                      text |-> text, found |-> found, pre |-> bodies,
                      at |-> clock]
    /\ clock' = clock + 1
    /\ UNCHANGED <<toolVars, user_settings, pipeVars, emailVars, storeVars, goc, pc,
                   saveVars, digestVars>>

UpdateMarkdown == UpdateBody("articles")

UpdateTranscript == UpdateBody("videos")

\* What PostgreSQL refuses when the delete of a source commits: a video row
\* still refers to the source (videos.source_id has no cascade of any kind),
\* or a digest row refers to one of its articles (digests.article_id), which
\* the relationship cascade deletes with the source.
DeleteBlocked(id) ==
    \/ \E v \in videos : v.source_id = id
    \/ \E a \in articles : a.source_id = id
          /\ \E d \in digests : d.content_type = "article" /\ d.item_id = a.id

\* SourceRepository.delete: get_by_id, db.delete(source), db.commit().  The
\* relationship Source.articles cascades the delete to the articles; a
\* refused commit raises IntegrityError and nothing is deleted.
DeleteSource ==
    /\ \E id \in {r.id : r \in sources} \cup {0} :
          LET found == \E r \in sources : r.id = id
              gone == {a \in articles : a.source_id = id} IN
          IF found /\ ~DeleteBlocked(id)
          THEN /\ sources' = {r \in sources : r.id # id}
               /\ articles' = articles \ gone
               /\ bodies' = {b \in bodies :
                                ~(b.table = "articles"
                                    /\ b.id \in {a.id : a \in gone})}
               /\ last' = [op |-> "delete", id |-> id, found |-> TRUE,
                           raised |-> FALSE, returned |-> TRUE]
          ELSE /\ UNCHANGED <<sources, articles, bodies>>
               /\ last' = [op |-> "delete", id |-> id, found |-> found,
                           raised |-> found, returned |-> FALSE]
    /\ UNCHANGED <<toolVars, videos, digests, clock, user_settings, pipeVars, emailVars,
                   goc, pc, saveVars, digestVars>>

\* One call of DigestRepository.get_recent.
GetRecent ==
    /\ pc[1] = "idle"
    /\ last = NoAdminCall
    /\ \E hours \in RecentWindows :
          last' = [op |-> "get_recent", hours |-> hours, now |-> GenerationHour,
                   result |-> get_recent(digests, hours, GenerationHour)]
    /\ UNCHANGED <<toolVars, bodies, clock, user_settings, pipeVars, emailVars,
                   storeVars, goc, pc, saveVars, digestVars>>

\* ---- user profiles
Emails == {"u1@x", "u2@x"}

ProfileFields == {"name", "background", "interests", "system_prompt"}

\* The arguments of UserProfile.create_or_update; NULL is None.
ProfileArgs ==
    [email : Emails, name : {NULL, "a", "b"}, background : {NULL, "x"},
     interests : {NULL, "i"}, system_prompt : {NULL, "p"}]

\* UserSettingsRepository.get_by_email
get_by_email(rows, email) == {r \in rows : r.email = email}

\* update_data with every argument, None included (a slip).
UpdateDataAll(a) == ProfileFields

\* update_data: the arguments that are not None.
UpdateData(a) == {f \in ProfileFields : a[f] # NULL}

\* UserSettingsRepository.update: setattr for each key of update_data, and
\* updated_at is stamped.
UpdatedUser(row, a, now) ==
    [f \in DOMAIN row |->
        IF f \in UpdateData(a) THEN a[f]
        ELSE IF f = "updated_at" THEN now
        ELSE row[f]]

\* UserSettingsRepository.create
NewUser(rows, a, now) ==
    [id |-> NextId(rows), email |-> a.email, name |-> a.name,
     background |-> a.background, interests |-> a.interests,
     system_prompt |-> a.system_prompt, updated_at |-> now]

\* The rows after UserProfile.create_or_update.
UpsertRows(rows, a, now) ==
    IF get_by_email(rows, a.email) # {}
    THEN LET user == CHOOSE r \in get_by_email(rows, a.email) : TRUE IN
         (rows \ {user}) \cup {UpdatedUser(user, a, now)}
    ELSE rows \cup {NewUser(rows, a, now)}

\* value or "": the empty string for None.
OrEmpty(v) == IF v = NULL THEN "" ELSE v

\* The dict create_or_update returns for the row of an email.
ProfileOf(rows, email) ==
    LET user == CHOOSE r \in get_by_email(rows, email) : TRUE IN
    [id |-> user.id, email |-> user.email, name |-> OrEmpty(user.name),
     background |-> OrEmpty(user.background),
     interests |-> OrEmpty(user.interests),
     system_prompt |-> user.system_prompt]

\* One call of UserProfile.create_or_update.
CreateOrUpdate ==
    /\ clock < MaxProfileCalls
    /\ \E a \in ProfileArgs :
          /\ user_settings' = UpsertRows(user_settings, a, clock)
          /\ last' = [op |-> "create_or_update", args |-> a,
                      pre |-> user_settings,
                      result |-> ProfileOf(UpsertRows(user_settings, a, clock),
                                           a.email)]
    /\ clock' = clock + 1
    /\ UNCHANGED <<toolVars, bodies, pipeVars, emailVars, storeVars, goc, pc, saveVars,
                   digestVars>>

\* ---- creates called directly
MaxCreates == 3     \* create calls in one history

\* The arguments of the create calls.
SourceCreateArgs ==
    {RssArgs("A", u, r) : u \in SiteUrls, r \in {"feed_anthropic", "feed_openai"}}
        \cup {YoutubeArgs("Y", c, "h1") : c \in ChannelIds}

ArticleCreateArgs == [source_id : {1, 2}, url : ArticleURLs]

VideoCreateArgs == [source_id : {1, 2}, url : VideoURLs, video_id : {"v1", "v2"}]

UserCreateArgs ==
    {a \in ProfileArgs :
        a.background = NULL /\ a.interests = NULL /\ a.system_prompt = NULL}

\* The unique columns of Video, for the url and video_id a caller passes.
VideoKeysUnique(vids, url, video_id) ==
    \A v \in vids : v.url # url /\ v.video_id # video_id

\* The row VideoRepository.create inserts for the arguments of a direct call.
NewVideoRow(vids, a) ==
    [id |-> NextId(vids), source_id |-> a.source_id, url |-> a.url,
     video_id |-> a.video_id, published_at |-> PublishedAt(a.url)]

\* The foreign key source_id of articles and videos.
SourceExists(srcs, id) == \E s \in srcs : s.id = id

\* A commit that inserts the row although a constraint is violated (a slip).
CommittedAnyway(rows, row, ok) == rows \cup {row}

\* db.add(row); db.commit(): the row is in the table when no constraint is
\* violated; otherwise commit raises and the table is as it was.
Committed(rows, row, ok) == IF ok THEN rows \cup {row} ELSE rows

\* What the four tables hold.
Tables ==
    [sources |-> sources, articles |-> articles, videos |-> videos,
     user_settings |-> user_settings]

\* One create call on a table: its record, and the session, which a failed
\* commit leaves inactive.
Created(table, a, ok) ==
    /\ last' = [op |-> "create", table |-> table, args |-> a, pre |-> Tables,
                raised |-> ~ok, rolled_back |-> FALSE]
    /\ sess' = [sess EXCEPT ![1] = IF ok THEN @ ELSE "inactive"]
    /\ clock' = clock + 1
    /\ UNCHANGED <<toolVars, bodies, pipeVars, emailVars, digests, goc, pc,
                   job, gi, idx, src, saved, log, calls, digestVars>>

\* SourceRepository.create
CreateSourceRow ==
    /\ clock < MaxCreates
    /\ \E a \in SourceCreateArgs :
          LET ok == sess[1] = "ok" /\ SourceUnique(sources, a) IN
          /\ sources' = Committed(sources, NewSource(sources, a), ok)
          /\ Created("sources", a, ok)
    /\ UNCHANGED <<articles, videos, user_settings>>

\* ArticleRepository.create
CreateArticleRow ==
    /\ clock < MaxCreates
    /\ \E a \in ArticleCreateArgs :
          LET ok == /\ sess[1] = "ok"
                    /\ ArticleUnique(articles, a.url)
                    /\ ColumnsFit(a.url)
                    /\ SourceExists(sources, a.source_id) IN
          /\ articles' = Committed(articles,
                                    NewArticle(articles, a.source_id, a.url), ok)
          /\ Created("articles", a, ok)
    /\ UNCHANGED <<sources, videos, user_settings>>

\* VideoRepository.create
CreateVideoRow ==
    /\ clock < MaxCreates
    /\ \E a \in VideoCreateArgs :
          LET ok == /\ sess[1] = "ok"
                    /\ VideoKeysUnique(videos, a.url, a.video_id)
                    /\ SourceExists(sources, a.source_id) IN
          /\ videos' = Committed(videos, NewVideoRow(videos, a), ok)
          /\ Created("videos", a, ok)
    /\ UNCHANGED <<sources, articles, user_settings>>

\* UserSettingsRepository.create
CreateUserRow ==
    /\ clock < MaxCreates
    /\ \E a \in UserCreateArgs :
          LET ok == sess[1] = "ok" /\ get_by_email(user_settings, a.email) = {} IN
          /\ user_settings' = Committed(user_settings,
                                         NewUser(user_settings, a, clock), ok)
          /\ Created("user_settings", a, ok)
    /\ UNCHANGED <<sources, articles, videos>>

\* The caller's except block: db.rollback().
CallerRollback ==
    /\ last.op = "create"
    /\ last.raised
    /\ ~last.rolled_back
    /\ last' = [last EXCEPT !.rolled_back = TRUE]
    /\ sess' = [sess EXCEPT ![1] = Rollback(@)]
    /\ UNCHANGED <<toolVars, bodies, clock, user_settings, pipeVars, emailVars,
                   storeVars, goc, pc, job, gi, idx, src, saved, log, calls,
                   digestVars>>

\* ------------------------------------------------------- fetchers on a feed

MaxFeed == 2        \* entries in the feeds of one fetch
MaxHour == 3        \* the clock of a fetch; publish hours are 0..MaxHour

NoToolCall == [fn |-> "none"]

\* The lookback windows, in hours.
Windows == {1, 2}

\* What feedparser hands over for one entry: title and link as they are in
\* the feed (absent ones are ''), and the publish hour.
Entries ==
    [title : {"", " ", "T"},
     link : {"", "https://site/a", "https://www.youtube.com/shorts/s"},
     published : {NoDate} \cup (0..MaxHour)]

FeedsOf(n) == UNION {[1..k -> Entries] : k \in 0..n}

\* Two feeds of one multi-origin fetch.
FeedPairs ==
    {<<f, g>> : f \in FeedsOf(1), g \in FeedsOf(MaxFeed - 1)}

\* str.strip() of a title
Strip(t) == IF t = " " THEN "" ELSE t

\* A lookback test that drops the entry published exactly at the cutoff (a
\* slip).
NotOlderStrict(published, cutoff) == published > cutoff

\* published_at >= cutoff
NotOlder(published, cutoff) == published >= cutoff

\* The loop of an article scraper over feed.entries: an entry whose date
\* parses and is not older than the cutoff becomes a NewsArticle, with the
\* stripped title and the link, whatever they are.
RECURSIVE ArticlesOf(_, _, _, _)
ArticlesOf(feed, k, cutoff, origin) ==
    IF k > Len(feed) THEN <<>>
    ELSE LET entry == feed[k]
             published_at == entry.published IN
         (IF published_at # NoDate /\ NotOlder(published_at, cutoff)
          THEN << [title |-> Strip(entry.title), url |-> entry.link,
                   published_at |-> published_at, at |-> <<origin, k>>] >>
          ELSE <<>>)
             \o ArticlesOf(feed, k + 1, cutoff, origin)

\* YouTubeService._extract_video_info: None (here <<>>) for an entry without
\* title or link, a short, or one older than the cutoff; an entry whose date
\* does not parse is stamped with the current time.
extract_video_info(entry, cutoff, now, at) ==
    LET title == Strip(entry.title)
        url == entry.link
        published_at == IF entry.published = NoDate THEN now
                        ELSE entry.published IN
    IF title = "" \/ url = "" THEN <<>>
    ELSE IF url = "https://www.youtube.com/shorts/s" THEN <<>>
    ELSE IF ~NotOlder(published_at, cutoff) THEN <<>>
    ELSE << [title |-> title, url |-> url, published_at |-> published_at,
             at |-> at] >>

RECURSIVE VideosOf(_, _, _, _, _)
VideosOf(feed, k, cutoff, now, origin) ==
    IF k > Len(feed) THEN <<>>
    ELSE extract_video_info(feed[k], cutoff, now, <<origin, k>>)
             \o VideosOf(feed, k + 1, cutoff, now, origin)

\* list.sort(key=published_at, reverse=True): stable, newest first.
InsertByPublished(x, s) ==
    LET n == Cardinality({i \in DOMAIN s :
                 s[i].published_at > x.published_at}) IN
    SubSeq(s, 1, n) \o <<x>> \o SubSeq(s, n + 1, Len(s))

RECURSIVE SortByPublished(_)
SortByPublished(s) ==
    IF s = <<>> THEN <<>>
    ELSE InsertByPublished(Head(s), SortByPublished(Tail(s)))

\* OpenAINewsScraper.get_articles on the entries of its feed: the articles in
\* feed order.
openai_get_articles(feed, hours, now) == ArticlesOf(feed, 1, now - hours, 1)

\* AnthropicNewsScraper.get_articles on the entries of its feeds: all
\* articles, sorted.
anthropic_get_articles(feeds, hours, now) ==
    SortByPublished(ArticlesOf(feeds[1], 1, now - hours, 1)
                        \o ArticlesOf(feeds[2], 1, now - hours, 2))

\* YouTubeService.get_channel_videos on the entries of the channel's feed: the
\* videos in feed order.
get_channel_videos(feed, hours, now, origin) ==
    VideosOf(feed, 1, now - hours, now, origin)

\* YouTubeService.get_multiple_channels on the feeds of two channels: all
\* videos, sorted.
channels_get_videos(feeds, hours, now) ==
    SortByPublished(get_channel_videos(feeds[1], hours, now, 1)
                        \o get_channel_videos(feeds[2], hours, now, 2))

\* One call of a single-feed fetcher.
FetchFeed ==
    /\ call = NoToolCall
    /\ \E fn \in {"openai", "channel"}, feed \in FeedsOf(MaxFeed),
       hours \in Windows :
        /\ call' = [fn |-> fn, feeds |-> <<feed>>, hours |-> hours,
                    now |-> MaxHour,
                    out |-> IF fn = "openai"
                            THEN openai_get_articles(feed, hours, MaxHour)
                            ELSE get_channel_videos(feed, hours, MaxHour, 1)]
        /\ UNCHANGED <<adminVars, pipeVars, emailVars, storeVars, goc, pc,
                       saveVars, digestVars>>

\* One call of a multi-origin fetcher.
FetchFeeds ==
    /\ call = NoToolCall
    /\ \E fn \in {"anthropic", "channels"}, feeds \in FeedPairs,
       hours \in Windows :
        /\ call' = [fn |-> fn, feeds |-> feeds, hours |-> hours,
                    now |-> MaxHour,
                    out |-> IF fn = "anthropic"
                            THEN anthropic_get_articles(feeds, hours, MaxHour)
                            ELSE channels_get_videos(feeds, hours, MaxHour)]
        /\ UNCHANGED <<adminVars, pipeVars, emailVars, storeVars, goc, pc,
                       saveVars, digestVars>>

\* ------------------------------------------------------------ the date line
\* A date as strftime and .day see it.
Dates ==
    {d \in [weekday : 0..6, month : 1..12, day : 1..31] :
        d.day <= (IF d.month = 2 THEN 29
                  ELSE IF d.month \in {4, 6, 9, 11} THEN 30 ELSE 31)}

\* date.strftime("%A")
DayName(d) ==
    <<"Monday", "Tuesday", "Wednesday", "Thursday", "Friday", "Saturday",
      "Sunday">>[d.weekday + 1]

\* date.strftime("%B")
MonthName(d) ==
    <<"January", "February", "March", "April", "May", "June", "July",
      "August", "September", "October", "November", "December">>[d.month]

\* {1: "st", 2: "nd", 3: "rd"}.get(day % 10, "th")
ByLastDigit(day) ==
    CASE day % 10 = 1 -> "st"
      [] day % 10 = 2 -> "nd"
      [] day % 10 = 3 -> "rd"
      [] OTHER -> "th"

\* The ordinal suffix without the test on the teens (a slip).
SuffixNoTeens(day) == ByLastDigit(day)

\* The ordinal suffix of _format_date.
Suffix(day) ==
    IF 10 <= day % 100 /\ day % 100 <= 20 THEN "th" ELSE ByLastDigit(day)

\* EmailAgent._format_date: "<day name>, <month name> <day><suffix>", as its
\* four parts.
format_date(d) ==
    [day_name |-> DayName(d), month_name |-> MonthName(d), day |-> d.day,
     suffix |-> Suffix(d.day)]

FormatDate ==
    /\ call = NoToolCall
    /\ \E d \in Dates :
           call' = [fn |-> "format_date", date |-> d, out |-> format_date(d)]
    /\ UNCHANGED <<adminVars, pipeVars, emailVars, storeVars, goc, pc,
                   saveVars, digestVars>>

\* ------------------------------------------------------ body backfill passes
MaxPasses == 2      \* backfill passes in one behaviour

TRANSCRIPT_UNAVAILABLE == "transcript is not available"

\* What a body fetch hands back: a text, the empty text, or None.
BodyReplies == {"t1", "", NULL}

\* The transcript written for a reply, were the reply stored as it came (a
\* slip).
TranscriptAsFetched(reply) == reply

\* The transcript a pass writes for a reply of get_transcript: the text of a
\* transcript that has one, the placeholder otherwise.
TranscriptToStore(reply) ==
    IF reply # NULL /\ reply # "" THEN reply ELSE TRANSCRIPT_UNAVAILABLE

\* Whether a markdown pass writes anything for a reply: if markdown_content.
MarkdownFetched(reply) == reply # NULL /\ reply # ""

\* The rows of a table, as pairs for the books of the passes.
Marked(table, ids) == {<<table, id>> : id \in ids}

\* fetch_markdown_batch / fetch_transcripts_batch begin: the rows without body
\* are queried once.  seen and before are what earlier passes went over and
\* what they processed without an exception.
StartPass(table) ==
    /\ pc[1] = "idle"
    /\ call.fn \in {"none", "rest"}
    /\ (call.fn = "rest") => call.n < MaxPasses
    /\ \E limit \in Limits :
       \E res \in get_without_body(Table(table), bodies, table, limit) :
          call' = [fn |-> "pass", table |-> table, limit |-> limit,
                   items |-> [i \in DOMAIN res |-> res[i].id], i |-> 1,
                   done |-> {}, tried |-> {},
                   seen |-> IF call.fn = "rest" THEN call.seen ELSE {},
                   before |-> IF call.fn = "rest" THEN call.before ELSE {},
                   n |-> IF call.fn = "rest" THEN call.n + 1 ELSE 1]
    /\ UNCHANGED <<adminVars, pipeVars, emailVars, storeVars, goc, pc,
                   saveVars, digestVars>>

StartMarkdownPass == StartPass("articles")

StartTranscriptPass == StartPass("videos")

\* The loop has gone over one row.
Stepped(id, ok) ==
    call' = [call EXCEPT !.i = @ + 1,
                         !.tried = @ \cup {id},
                         !.done = IF ok THEN @ \cup {id} ELSE @]

\* One iteration of fetch_transcripts_batch: get_transcript, then the text or
\* the placeholder is written; an update whose commit raises is rolled back
\* and the loop goes on.
TranscriptStep ==
    /\ call.fn = "pass"
    /\ call.table = "videos"
    /\ call.i <= Len(call.items)
    /\ \E reply \in BodyReplies, commit_ok \in BOOLEAN :
          LET id == call.items[call.i] IN
          /\ bodies' = IF commit_ok
                       THEN update_body(bodies, "videos", id,
                                        TranscriptToStore(reply), clock)
                       ELSE bodies
          /\ Stepped(id, commit_ok)
    /\ UNCHANGED <<clock, user_settings, last, pipeVars, emailVars, storeVars,
                   goc, pc, saveVars, digestVars>>

\* One iteration of fetch_markdown_batch: get_url_content_as_markdown, and
\* the markdown is written when there is any; otherwise the article is
\* counted as failed and nothing is written.
MarkdownStep ==
    /\ call.fn = "pass"
    /\ call.table = "articles"
    /\ call.i <= Len(call.items)
    /\ \E reply \in BodyReplies, commit_ok \in BOOLEAN :
          LET id == call.items[call.i] IN
          /\ bodies' = IF MarkdownFetched(reply) /\ commit_ok
                       THEN update_body(bodies, "articles", id, reply, clock)
                       ELSE bodies
          /\ Stepped(id, MarkdownFetched(reply) => commit_ok)
    /\ UNCHANGED <<clock, user_settings, last, pipeVars, emailVars, storeVars,
                   goc, pc, saveVars, digestVars>>

\* The pass is over.
EndPass ==
    /\ call.fn = "pass"
    /\ call.i > Len(call.items)
    /\ call' = [fn |-> "rest", n |-> call.n,
                seen |-> call.seen \cup Marked(call.table, call.tried),
                before |-> call.before \cup Marked(call.table, call.done)]
    /\ UNCHANGED <<adminVars, pipeVars, emailVars, storeVars, goc, pc,
                   saveVars, digestVars>>

\* ---- the summarization input of a video
Descriptions == {"", "d"}

\* DigestAgent.generate_digest_from_video: what is handed to generate_digest,
\* the title and then the transcript if it is truthy, else the description.
VideoDigestInput(title, description, transcript) ==
    [title |-> title,
     content |-> IF transcript # NULL /\ transcript # "" THEN transcript
                 ELSE description]

\* process_item on a stored video, as far as the call of the agent.
SummarizeVideo ==
    /\ call.fn = "rest"
    /\ last = NoAdminCall
    /\ \E v \in videos, description \in Descriptions :
          LET transcript == BodyOf(bodies, "videos", v.id).text IN
          last' = [op |-> "video_digest", id |-> v.id,
                   description |-> description, transcript |-> transcript,
                   input |-> VideoDigestInput("T", description, transcript)]
    /\ UNCHANGED <<toolVars, bodies, clock, user_settings, pipeVars, emailVars,
                   storeVars, goc, pc, saveVars, digestVars>>

\* ------------------------------------------------------------ construction
InitStore ==
    /\ sources = {}
    /\ articles = {}
    /\ videos = {}
    /\ digests = {}

InitRuns ==
    /\ goc = NoCall
    /\ pc = [p \in Procs |-> "idle"]
    /\ job = [p \in Procs |-> NoJob]
    /\ gi = [p \in Procs |-> 1]
    /\ idx = [p \in Procs |-> 1]
    /\ src = [p \in Procs |-> 0]
    /\ saved = [p \in Procs |-> 0]
    /\ log = [p \in Procs |-> <<>>]
    /\ calls = [p \in Procs |-> 0]
    /\ sess = [p \in Procs |-> "ok"]
    /\ todo = [p \in Procs |-> <<>>]
    /\ dix = [p \in Procs |-> 1]
    /\ successful = [p \in Procs |-> 0]
    /\ failed = [p \in Procs |-> 0]
    /\ selected = [p \in Procs |-> 0]
    /\ dlog = [p \in Procs |-> <<>>]
    /\ epc = "idle"
    /\ digest_data = <<>>
    /\ ranking = <<>>
    /\ ranked_items = <<>>
    /\ sections = <<>>
    /\ introduction = NULL
    /\ users = 0
    /\ uix = 1
    /\ sent_count = 0
    /\ failed_count = 0
    /\ ulog = <<>>
    /\ email_env = NoEmailEnv
    /\ llm_calls = 0
    /\ emails_out = <<>>
    /\ rpc = "off"
    /\ env = [o \in Origins |-> NoError]
    /\ fetched = NoResults
    /\ stage = "none"
    /\ bodies = {}
    /\ clock = 0
    /\ user_settings = {}
    /\ last = NoAdminCall
    /\ call = NoToolCall
    /\ results = NoPipelineResults

Init == InitStore /\ InitRuns

\* The source registry alone: get_or_create calls one after the other.
SpecSource == Init /\ [][RegistryCall]_vars

\* Two overlapping runs, each making one save call, on a store that starts
\* empty.  The lists name no URL twice (the sequential specification covers
\* lists that do).
NoRepeat(s) == \A i, k \in DOMAIN s : i < k => s[i] # s[k]

DistinctJobs == {j \in SaveJobs : NoRepeat(Flatten(j.groups))}

NextSave ==
    \E p \in Procs :
        \/ \E j \in DistinctJobs : StartSave(p, j)
        \/ GetSource(p)
        \/ CreateSource(p)
        \/ CheckItem(p)
        \/ InsertItem(p)

SpecSave == Init /\ [][NextSave]_vars

\* One run at a time: save calls, each possibly repeated with the same list.
NextSeq ==
    \/ /\ Cardinality(articles) + Cardinality(videos) <= MaxStored
       /\ \E j \in SaveJobs : StartSave(1, j)
    \/ GetSource(1)
    \/ CreateSource(1)
    \/ CheckItem(1)
    \/ InsertItem(1)
    \/ CallAgain(1)
    \/ EndRun(1)

SpecSeq == Init /\ [][NextSeq]_vars

\* One run at a time, ingestion and digest batches in any order.  Each save
\* call is given one item: with no other run active the items of a longer list
\* are saved one after the other in exactly this way.
SingleJobs == {j \in SaveJobs : Len(Flatten(j.groups)) = 1}

RoomFor(j) ==
    Cardinality(articles) + Cardinality(videos) + Len(Flatten(j.groups)) <= MaxStored

NextDigest ==
    \/ \E j \in SingleJobs : RoomFor(j) /\ StartSave(1, j)
    \/ GetSource(1)
    \/ CreateSource(1)
    \/ CheckItem(1)
    \/ InsertItem(1)
    \/ EndRun(1)
    \/ StartDigest(1)
    \/ ProcessItem(1)
    \/ EndDigest(1)

SpecDigest == Init /\ [][NextDigest]_vars

\* Ingestion of articles with no other run active, then digest batches that
\* may overlap.
NextDigestPar ==
    \/ /\ pc[2] = "idle"
       /\ \/ \E j \in AnthropicJobs : RoomFor(j) /\ StartSave(1, j)
          \/ GetSource(1)
          \/ CreateSource(1)
          \/ CheckItem(1)
          \/ InsertItem(1)
          \/ EndRun(1)
    \/ \E p \in Procs :
          \/ StartDigest(p)
          \/ ProcessItem(p)
          \/ EndDigest(p)

SpecDigestPar == Init /\ [][NextDigestPar]_vars

\* The email stage for one user after the other.
NextEmail ==
    \/ StartEmail
    \/ RankDigests
    \/ ComposeEmail
    \/ SendEmail
    \/ NextUser
    \/ EndEmail

NextRank == RankOnly \/ RankReturns

SpecRank == Init /\ [][NextRank]_vars

SpecEmail == Init /\ [][NextEmail]_vars

\* The daily pipeline of one process, while a second process saves Anthropic
\* articles of its own.
NextPipe ==
    \/ /\ Cardinality(articles) + Cardinality(videos) + Cardinality(digests)
              <= MaxStored
       /\ StartPipeline
    \/ ScrapeAndSave
    \/ FetchAnthropic
    \/ FetchOpenAI
    \/ FetchYoutube
    \/ SaveFetched
    \/ SaveReturns
    \/ ReturnRun
    \/ ScrapeReturns
    \/ GenerateDigests
    \/ ProcessItem(Runner)
    \/ DigestsReturn
    \/ SendEmails
    \/ RankDigests
    \/ ComposeEmail
    \/ SendEmail
    \/ NextUser
    \/ EmailsReturn
    \/ EndPipeline
    \/ \E j \in AnthropicJobs \cap SingleJobs :
          stage = "scraping" /\ rpc = "anthropic_save" /\ StartSave(2, j)
    \/ \E p \in Procs :
          \/ GetSource(p)
          \/ CreateSource(p)
          \/ CheckItem(p)
          \/ InsertItem(p)
    \/ EndRun(2)

SpecPipe == Init /\ [][NextPipe]_vars

\* Ingestion of single Anthropic articles and videos by one run, then body
\* backfill calls.
NextBackfill ==
    \/ \E j \in (AnthropicJobs \cup YoutubeJobs) \cap SingleJobs :
          last = NoAdminCall /\ RoomFor(j) /\ StartSave(1, j)
    \/ last = NoAdminCall /\ GetSource(1)
    \/ last = NoAdminCall /\ CreateSource(1)
    \/ last = NoAdminCall /\ CheckItem(1)
    \/ last = NoAdminCall /\ InsertItem(1)
    \/ last = NoAdminCall /\ EndRun(1)
    \/ pc[1] = "idle" /\ GetWithoutMarkdown
    \/ pc[1] = "idle" /\ GetWithoutTranscript
    \/ pc[1] = "idle" /\ UpdateMarkdown
    \/ pc[1] = "idle" /\ UpdateTranscript

SpecBackfill == Init /\ [][NextBackfill]_vars

\* Ingestion and digest batches of one run, then the deletion of a source.
NextDelete ==
    \/ \E j \in SingleJobs : last = NoAdminCall /\ RoomFor(j) /\ StartSave(1, j)
    \/ last = NoAdminCall /\ GetSource(1)
    \/ last = NoAdminCall /\ CreateSource(1)
    \/ last = NoAdminCall /\ CheckItem(1)
    \/ last = NoAdminCall /\ InsertItem(1)
    \/ last = NoAdminCall /\ EndRun(1)
    \/ last = NoAdminCall /\ StartDigest(1)
    \/ last = NoAdminCall /\ ProcessItem(1)
    \/ last = NoAdminCall /\ EndDigest(1)
    \/ last = NoAdminCall /\ DeleteSource

SpecDelete == Init /\ [][NextDelete]_vars

SpecProfile == Init /\ [][CreateOrUpdate]_vars

\* Creates called directly, each failed one followed by the caller's rollback.
NextCreate ==
    \/ CreateSourceRow
    \/ CreateArticleRow
    \/ CreateVideoRow
    \/ CreateUserRow
    \/ CallerRollback

SpecCreate == Init /\ [][NextCreate]_vars

\* Ingestion by one run, then backfill passes one after the other.
NextPass ==
    \/ \E j \in (AnthropicJobs \cup YoutubeJobs) \cap SingleJobs :
          call = NoToolCall /\ RoomFor(j) /\ StartSave(1, j)
    \/ call = NoToolCall /\ GetSource(1)
    \/ call = NoToolCall /\ CreateSource(1)
    \/ call = NoToolCall /\ CheckItem(1)
    \/ call = NoToolCall /\ InsertItem(1)
    \/ call = NoToolCall /\ EndRun(1)
    \/ StartMarkdownPass
    \/ StartTranscriptPass
    \/ TranscriptStep
    \/ MarkdownStep
    \/ EndPass
    \/ SummarizeVideo

SpecPass == Init /\ [][NextPass]_vars

\* Ingestion and digest batches of one run, then a query for recent digests.
NextRecent ==
    \/ \E j \in SingleJobs : last = NoAdminCall /\ RoomFor(j) /\ StartSave(1, j)
    \/ last = NoAdminCall /\ GetSource(1)
    \/ last = NoAdminCall /\ CreateSource(1)
    \/ last = NoAdminCall /\ CheckItem(1)
    \/ last = NoAdminCall /\ InsertItem(1)
    \/ last = NoAdminCall /\ EndRun(1)
    \/ last = NoAdminCall /\ StartDigest(1)
    \/ last = NoAdminCall /\ ProcessItem(1)
    \/ last = NoAdminCall /\ EndDigest(1)
    \/ GetRecent

SpecRecent == Init /\ [][NextRecent]_vars

\* The feeds of MoreFeeds saved one after the other by one run.
NextFeeds ==
    \/ \E j \in FeedJobs : RoomFor(j) /\ StartSave(1, j)
    \/ GetSource(1)
    \/ CreateSource(1)
    \/ CheckItem(1)
    \/ InsertItem(1)
    \/ EndRun(1)

SpecFeeds == Init /\ [][NextFeeds]_vars

\* The date line of every date.
SpecFormat == Init /\ [][FormatDate]_vars

\* Fetcher calls on feeds of every shape.
NextParse == FetchFeed \/ FetchFeeds

SpecParse == Init /\ [][NextParse]_vars

\* Aggregator runs one after the other, each in a world of its own.
NextFetch ==
    \/ /\ Cardinality(articles) + Cardinality(videos) <= MaxStored
       /\ StartRun
    \/ FetchAnthropic
    \/ FetchOpenAI
    \/ FetchYoutube
    \/ SaveFetched
    \/ GetSource(Runner)
    \/ CreateSource(Runner)
    \/ CheckItem(Runner)
    \/ InsertItem(Runner)
    \/ SaveReturns
    \/ ReturnRun
    \/ LeaveRun

SpecFetch == Init /\ [][NextFetch]_vars

\* --------------------------------------------------------------- claims

\* The last get_or_create call reported a stored channel id under a new handle.
RenameCall ==
    /\ goc.args.stype = YOUTUBE
    /\ goc.args.url = ChannelUrl(goc.args.uname)
    /\ \E s \in goc.pre : s.cid = goc.args.cid /\ s.uname # goc.args.uname

\* C3 (as stated): a get_or_create call that reports a stored channel id under a
\* new handle, with the channel URL built from the new handle, returns the
\* stored record of that channel id and creates no source.
C3_RenameReturnsChannelRecord ==
    RenameCall =>
        /\ ~goc.raised
        /\ sources = goc.pre
        /\ goc.result.cid = goc.args.cid

\* C3 (amended): such a call never creates a source and never raises; it returns
\* a stored record, which is the record of that channel id unless another stored
\* source already has the URL built from the new handle (the URL lookup comes
\* first, and then that other record is returned).
C3_RenameResolvesWithoutCreate ==
    RenameCall =>
        /\ ~goc.raised
        /\ sources = goc.pre
        /\ goc.result \in goc.pre
        /\ IF \E s \in goc.pre : s.url = goc.args.url
           THEN goc.result.url = goc.args.url
           ELSE goc.result.cid = goc.args.cid

C3_Witness ==
    /\ RenameCall
    /\ ~ \E s \in goc.pre : s.url = goc.args.url
    /\ goc.result.cid = goc.args.cid
    /\ goc.result.uname # goc.args.uname
    /\ Cardinality(goc.pre) >= 2

Count(seq, x) == Cardinality({k \in DOMAIN seq : seq[k] = x})

\* The stored rows with this URL, in the table the save path writes.
RowsWithUrl(kind, url) ==
    IF kind = "youtube" THEN {v \in videos : v.url = url}
    ELSE {a \in articles : a.url = url}

\* The stored rows with the key the save path checks: the video id of a video,
\* the URL of an article.
RowsWithKey(kind, url) ==
    IF kind = "youtube"
    THEN {v \in videos : v.video_id = extract_video_id(url)}
    ELSE {a \in articles : a.url = url}

\* C1 (as stated): a save path called twice in sequence with the same list
\* leaves exactly one stored row per item URL, and the second call returns 0.
C1_OneRowPerUrl ==
    \A p \in Procs :
        (pc[p] = "done" /\ calls[p] >= 2) =>
            /\ saved[p] = 0
            /\ \A k \in DOMAIN Items(p) :
                   Cardinality(RowsWithUrl(job[p].kind, Items(p)[k])) = 1

\* C1 (amended): a save path called twice in sequence with the same list leaves,
\* for every item whose row the database accepts, exactly one stored row per
\* article URL and, for videos, exactly one stored row per video id (a second
\* URL of a stored video id is skipped and gets no row of its own); an item
\* whose row exceeds a column is never stored; the second call returns 0.
C1_OneRowPerKey ==
    \A p \in Procs :
        (pc[p] = "done" /\ calls[p] >= 2) =>
            /\ saved[p] = 0
            /\ \A k \in DOMAIN Items(p) :
                   Cardinality(RowsWithKey(job[p].kind, Items(p)[k])) =
                       IF ColumnsFit(Items(p)[k]) THEN 1 ELSE 0

C1_Witness ==
    \E p \in Procs :
        /\ pc[p] = "done"
        /\ calls[p] = 2
        /\ job[p].kind = "youtube"
        /\ Len(Items(p)) = 2
        /\ Items(p)[1] # Items(p)[2]
        /\ extract_video_id(Items(p)[1]) = extract_video_id(Items(p)[2])
        /\ log[p] = <<"skip", "skip">>

\* C2: after any sequence of ingestion runs and digest batches that do not
\* overlap, every URL of a stored article or video has at most one digest.
C2_OneDigestPerUrl ==
    \A u \in {r.url : r \in articles \cup videos} :
        Cardinality({d \in digests : d.url = u}) <= 1

Finished(p) == pc[p] \in {"done", "raised"}

SameTable(p, q) == (job[p].kind = "youtube") <=> (job[q].kind = "youtube")

SharedUrls(p, q) ==
    {u \in {Items(p)[k] : k \in DOMAIN Items(p)} :
        ColumnsFit(u) /\ \E k \in DOMAIN Items(q) : Items(q)[k] = u}

\* C4: two overlapping save passes that were given the same new item (one the
\* database accepts) end with exactly one row for its URL (and its video id),
\* neither pass raises out of the save path, and each pass walks its whole
\* list.
C4_OverlapOneRowNoRaise ==
    \A p, q \in Procs :
        (p # q /\ Finished(p) /\ Finished(q) /\ SameTable(p, q)
              /\ SharedUrls(p, q) # {}) =>
            /\ pc[p] = "done"
            /\ Len(log[p]) = Len(Items(p))
            /\ \A u \in SharedUrls(p, q) :
                   /\ Cardinality(RowsWithUrl(job[p].kind, u)) = 1
                   /\ Cardinality(RowsWithKey(job[p].kind, u)) = 1

\* C5: when the insert of get_or_create hits a unique column that an
\* overlapping pass filled first, the call rolls back, looks the source up
\* again and returns the other pass's row; nothing is raised to the caller.
C5_SourceRaceResolved ==
    [][\A p \in Procs :
          (/\ pc[p] = "create_source"
           /\ ~SourceUnique(sources, CurGroup(p).args)
           /\ pc'[p] # pc[p]) =>
              /\ pc'[p] = "check"
              /\ src'[p] = Lookup(sources, CurGroup(p).args).id]_vars

\* C6: in a save pass a failed insert undoes nothing but itself: every item
\* the pass stored stays stored, the count is the number of successful inserts,
\* and a pass that returns after a failed insert has walked its whole list and
\* every item of the list that the database accepts is then stored under its
\* key.
C6_ItemFailureIsolated ==
    \A p \in Procs :
        /\ \A k \in DOMAIN log[p] :
               log[p][k] = "ok" => RowsWithUrl(job[p].kind, Items(p)[k]) # {}
        /\ saved[p] = Count(log[p], "ok")
        /\ (pc[p] = "done" /\ Count(log[p], "fail") > 0) =>
               /\ Len(log[p]) = Len(Items(p))
               /\ \A k \in DOMAIN Items(p) :
                      ColumnsFit(Items(p)[k]) =>
                          RowsWithKey(job[p].kind, Items(p)[k]) # {}

C6_Witness ==
    \E p, q \in Procs :
        /\ pc[p] = "done"
        /\ pc[q] = "done"
        /\ log[p] = <<"fail", "ok">>
        /\ log[q] = <<"ok", "fail">>

\* The digests stored for an item of a batch.
DigestsOf(item) ==
    {d \in digests : d.content_type = item.ctype /\ d.item_id = item.id}

\* C7: in a digest batch an item whose summarization raises gets no digest and
\* adds one to failed, the items after it are still processed, and when the
\* batch ends successful + failed is the number of items selected.

C7_DigestFailureIsolated ==
    \A p \in Procs :
        /\ \A k \in DOMAIN dlog[p] :
               /\ dlog[p][k] = "raise" => DigestsOf(todo[p][k]) = {}
               /\ dlog[p][k] = "ok" => DigestsOf(todo[p][k]) # {}
        /\ failed[p] = Count(dlog[p], "raise")
        /\ successful[p] = Count(dlog[p], "ok")
        /\ pc[p] = "d_done" =>
               /\ Len(dlog[p]) = selected[p]
               /\ successful[p] + failed[p] = selected[p]

C7_Witness ==
    \E p \in Procs :
        /\ pc[p] = "d_done"
        /\ dlog[p] = <<"raise", "ok">>
        /\ successful[p] = 1
        /\ failed[p] = 1

\* C8: a digest is created for an item only while no digest with its URL
\* exists: the existence check and the creation of an item's digest have no
\* other digest creation between them, so that overlapping batches over the
\* same item never store two digests for its URL.
C8_CheckThenGenerate ==
    [][\A d \in digests' \ digests : ~digest_exists_by_url(digests, d.url)]_vars

Ranks(items) == {items[k].rank : k \in DOMAIN items}

IsPermutationOf(items, data) ==
    /\ Len(items) = Len(data)
    /\ Ranks(items) = 1..Len(data)
    /\ \A d \in DOMAIN data :
           Cardinality({k \in DOMAIN items : items[k].url = data[d].url}) = 1

\* C9: for N >= 1 input digests the list rank_digests returned has exactly N
\* entries, their rank values are exactly {1..N}, and every input digest URL
\* appears exactly once, whatever the ranking collaborator replied.
C9_RankingIsPermutation ==
    (epc = "compose" /\ Len(digest_data) >= 1) =>
        IsPermutationOf(ranking, digest_data)

\* C10: for a ranked list of more than ten items (a valid ranking of the
\* digests, returned in whatever order) the composed email has exactly ten
\* sections and they are ordered by ascending rank.
C10_TopTenAscending ==
    (/\ epc = "composed"
     /\ Len(ranking) > TopN
     /\ IsPermutationOf(ranking, digest_data)) =>
        /\ Len(sections) = TopN
        /\ \A i, k \in DOMAIN sections :
               i < k => sections[i].rank < sections[k].rank

\* The URLs run returned for an origin, in the order of its results.
ReturnedOf(o) ==
    LET from(it) == it.origin = o IN
    Urls(SelectSeq(fetched.articles \o fetched.videos, from))

SameItems(s, t) ==
    /\ Len(s) = Len(t)
    /\ {s[k] : k \in DOMAIN s} = {t[k] : k \in DOMAIN t}

Outcomes(o) == Cardinality({i \in 1..Len(ulog) : ulog[i] = o})

\* C13: with a digest in the window and the agents initialised, every user is
\* attempted exactly once whatever happened to earlier users: while user uix
\* is processed the log holds one outcome for each earlier user, a failure
\* adds one to failed only, and on return sent + failed is the number of users
\* and these counts are what is returned.
C13_PerUserIsolation ==
    /\ (epc \in {"rank", "compose", "composed"}) =>
           /\ uix <= users
           /\ Len(ulog) = uix - 1
    /\ (epc \in {"sent", "failed"}) => Len(ulog) = uix
    /\ (epc # "idle" /\ digest_data # <<>>) =>
           /\ sent_count = Outcomes("sent")
           /\ failed_count = Outcomes("failed")
    /\ (epc = "returned" /\ digest_data # <<>>) =>
           /\ Len(ulog) = users
           /\ sent_count + failed_count = users
           /\ emails_out = Returned(sent_count, failed_count, users)

\* A first user whose email failed and a second one whose email was sent.
C13_Witness ==
    /\ epc = "returned"
    /\ ulog = <<"failed", "sent">>
    /\ emails_out = Returned(1, 1, 2)


\* C14: a missing API credential or mail credential is raised when the email
\* step starts: no ranking or composing call has been made and no user has
\* been processed, and the step is over.
C14_MissingCredentialFatalAtStart ==
    (epc # "idle" /\ users > 0 /\ (~email_env.openai \/ ~email_env.smtp)) =>
        /\ epc = "returned"
        /\ llm_calls = 0
        /\ ulog = <<>>


\* C15: generate_email_content given an empty ranked-item list produces an
\* email whose introduction is the static sentence, makes no call to the LLM
\* collaborator and does not raise.
C15_EmptyListStaticIntroduction ==
    [][(epc = "compose" /\ TopItems(ranked_items) = <<>>) =>
           /\ epc' = "composed"
           /\ introduction' = "static"
           /\ llm_calls' = llm_calls]_vars


\* C16: rank_digests called with an empty digest list returns an empty ranked
\* list and makes no call to the ranking collaborator.
C16_EmptyRankingNoCall ==
    (epc = "ranked" /\ digest_data = <<>>) =>
        /\ ranking = <<>>
        /\ llm_calls = 0

\* rank_digests has returned from a call with no digest.
C16_Witness ==
    /\ epc = "ranked"
    /\ digest_data = <<>>
    /\ ranking = <<>>


\* C11: run_daily_pipeline attempts every stage it was asked to perform: when
\* it returns, the digest stage and the email stage have reported their
\* counts whatever happened in an earlier stage.
C11_EveryStageAttempted ==
    (stage \in {"finished", "stopped"}) =>
        /\ results.digests # <<>>
        /\ results.emails # <<>>


\* The stored rows, before the last get_or_create call, that match one of its
\* arguments.
ByUrl == {r \in goc.pre : r.url = goc.args.url}
ByFeed ==
    {r \in goc.pre : goc.args.stype = RSS /\ goc.args.rss # NULL
                         /\ r.rss = goc.args.rss}
ByChannelId ==
    {r \in goc.pre : goc.args.stype = YOUTUBE /\ goc.args.cid # NULL
                         /\ r.cid = goc.args.cid}
ByHandle ==
    {r \in goc.pre : goc.args.stype = YOUTUBE /\ goc.args.uname # NULL
                         /\ r.uname = goc.args.uname}

\* C19: get_or_create resolves by canonical URL, then (RSS) by feed URL, then
\* (YouTube) by channel id, then by handle; it returns the first match,
\* changes no stored source, and creates a source only when no lookup
\* matches.
C19_ResolutionOrder ==
    (goc # NoCall) =>
        /\ goc.pre \subseteq sources
        /\ IF ByUrl # {} THEN goc.result \in ByUrl
           ELSE IF ByFeed # {} THEN goc.result \in ByFeed
           ELSE IF ByChannelId # {} THEN goc.result \in ByChannelId
           ELSE IF ByHandle # {} THEN goc.result \in ByHandle
           ELSE goc.result \notin goc.pre
        /\ (ByUrl \cup ByFeed \cup ByChannelId \cup ByHandle # {}) =>
               /\ sources = goc.pre
               /\ ~goc.raised
        /\ (sources # goc.pre) =>
               /\ ByUrl \cup ByFeed \cup ByChannelId \cup ByHandle = {}
               /\ sources = goc.pre \cup {goc.result}

\* A call whose URL is the one of a stored source and whose feed URL is the
\* one of another stored source: the URL lookup won.
C19_Witness ==
    /\ goc # NoCall
    /\ ByUrl # {}
    /\ ByFeed # {}
    /\ ByFeed # ByUrl
    /\ goc.result \in ByUrl
    /\ sources = goc.pre

\* A call whose channel id is the one of a stored source and whose handle is
\* the one of another: the channel-id lookup won.
C19_ChannelIdBeforeHandle ==
    /\ goc # NoCall
    /\ ByUrl = {}
    /\ ByChannelId # {}
    /\ ByHandle # {}
    /\ ByHandle # ByChannelId
    /\ goc.result \in ByChannelId


\* The ids a get_without_* query with this limit can return now.
Returnable(table, limit) ==
    UNION {{res[i].id : i \in DOMAIN res} :
              res \in get_without_body(Table(table), bodies, table, limit)}

\* C17: a row with a null body is among the rows a get_without_* query
\* selects: a query returns rows without body only, all of them when it has
\* no limit, else the first limit of them.  After update_markdown /
\* update_transcript the row is returned by no query; the call, the first or
\* a repeated one, stores the new text and the stamp of this call, later
\* than the stamp it replaces, and changes no other row's body.
C17_BodyBackfill ==
    /\ (last.op = "get_without") =>
           /\ {last.result[i] : i \in DOMAIN last.result} \subseteq last.missing
           /\ Len(last.result) =
                  IF last.limit = 0 THEN Cardinality(last.missing)
                  ELSE Min(last.limit, Cardinality(last.missing))
           /\ \A i, j \in DOMAIN last.result :
                  i # j => last.result[i] # last.result[j]
    /\ (last.op = "update" /\ last.found) =>
           /\ BodyOf(bodies, last.table, last.id) =
                  [text |-> last.text, at |-> last.at]
           /\ BodyOf(last.pre, last.table, last.id).at < last.at
           /\ \A limit \in Limits : last.id \notin Returnable(last.table, limit)
           /\ \A b \in bodies \cup last.pre :
                  (b.table # last.table \/ b.id # last.id) =>
                      (b \in bodies /\ b \in last.pre)
    /\ (last.op = "update" /\ ~last.found) => bodies = last.pre

\* A repeated backfill of a row with a new text, while another row of the
\* table still lacks its body.
C17_Witness ==
    /\ last.op = "update"
    /\ last.found
    /\ BodyOf(last.pre, last.table, last.id).text \notin {NULL, last.text}
    /\ BodyOf(bodies, last.table, last.id).text = last.text
    /\ \E r \in Table(last.table) :
          r.id # last.id /\ BodyOf(bodies, last.table, r.id).text = NULL


\* C18: deleting a stored source succeeds and leaves neither the source nor
\* any article or video whose source_id refers to it.
C18_DeleteCascades ==
    (last.op = "delete" /\ last.found) =>
        /\ ~last.raised
        /\ last.returned
        /\ \A r \in sources : r.id # last.id
        /\ \A a \in articles : a.source_id # last.id
        /\ \A v \in videos : v.source_id # last.id


\* A user row without its bookkeeping stamp.
Profile(row) == [f \in DOMAIN row \ {"updated_at"} |-> row[f]]

\* C20: create_or_update creates the record of an email that has none, with
\* the fields as supplied; otherwise it sets the supplied (non-None) fields
\* of the record of that email and leaves its other fields and every other
\* record as they were.  There is one record per email at most, and the same
\* call made again leaves the same records and returns the same profile.
C20_UpsertByEmail ==
    /\ \A r1, r2 \in user_settings : r1.email = r2.email => r1 = r2
    /\ (last.op = "create_or_update") =>
           LET a == last.args
               before == get_by_email(last.pre, a.email)
               after == get_by_email(user_settings, a.email)
               again == UpsertRows(user_settings, a, clock) IN
           /\ Cardinality(after) = 1
           /\ \A r \in last.pre : r.email # a.email => r \in user_settings
           /\ \A r \in user_settings : r.email # a.email => r \in last.pre
           /\ \A u \in after :
                  /\ before = {} =>
                         \A f \in ProfileFields : u[f] = a[f]
                  /\ \A o \in before :
                         /\ u.id = o.id
                         /\ \A f \in ProfileFields :
                                u[f] = IF a[f] # NULL THEN a[f] ELSE o[f]
                  /\ last.result.id = u.id
                  /\ last.result.email = a.email
                  /\ last.result.name = OrEmpty(u.name)
           /\ {Profile(r) : r \in again} = {Profile(r) : r \in user_settings}
           /\ ProfileOf(again, a.email) = last.result

\* An update that supplies a new name and no interests: the stored interests
\* are kept, the name is replaced.
C20_Witness ==
    /\ last.op = "create_or_update"
    /\ get_by_email(last.pre, last.args.email) # {}
    /\ last.args.name # NULL
    /\ last.args.interests = NULL
    /\ \E u \in get_by_email(user_settings, last.args.email) :
          /\ u.interests # NULL
          /\ u.name = last.args.name
          /\ \E o \in last.pre : o.email = u.email /\ o.name # u.name


\* C21: no fetcher returns an item with an empty title or an empty URL.
C21_NoEmptyTitleOrLink ==
    (call.fn \in {"openai", "anthropic", "channel", "channels"}) =>
        \A i \in DOMAIN call.out :
            call.out[i].title # "" /\ call.out[i].url # ""

\* C22: the list every fetcher returns is ordered newest first by publish
\* timestamp.
C22_NewestFirst ==
    (call.fn \in {"openai", "anthropic", "channel", "channels"}) =>
        \A i, j \in DOMAIN call.out :
            i < j => call.out[i].published_at >= call.out[j].published_at


\* The entry passes the checks of the fetcher other than the lookback one.
WellFormed(fn, entry) ==
    IF fn \in {"channel", "channels"}
    THEN /\ Strip(entry.title) # "" /\ entry.link # ""
         /\ entry.link # "https://www.youtube.com/shorts/s"
    ELSE TRUE

\* C23: every item a fetcher returns for a window of N hours is published at
\* or after now - N; an entry published before that is never returned, and
\* one published exactly then is.
C23_LookbackFilter ==
    (call.fn \in {"openai", "anthropic", "channel", "channels"}) =>
        LET cutoff == call.now - call.hours
            Places == {<<o, k>> : o \in DOMAIN call.feeds, k \in 1..MaxFeed}
            In == {q \in Places : q[2] \in DOMAIN call.feeds[q[1]]}
            Out == {call.out[i].at : i \in DOMAIN call.out} IN
        /\ \A i \in DOMAIN call.out : call.out[i].published_at >= cutoff
        /\ \A q \in In :
              LET entry == call.feeds[q[1]][q[2]] IN
              /\ (entry.published # NoDate /\ entry.published < cutoff)
                     => q \notin Out
              /\ (entry.published = cutoff /\ WellFormed(call.fn, entry))
                     => q \in Out

\* C23 witness: a fetch of two entries, one published an hour before the
\* cutoff and one exactly at it, returned the second only.
C23_Witness ==
    /\ call.fn \in {"openai", "channel"}
    /\ Len(call.feeds[1]) = 2
    /\ call.feeds[1][1].published = call.now - call.hours - 1
    /\ call.feeds[1][2].published = call.now - call.hours
    /\ Len(call.out) = 1
    /\ call.out[1].at = <<1, 2>>


\* C24: the date line shows the day of the month followed by "st" for 1, 21
\* and 31, "nd" for 2 and 22, "rd" for 3 and 23, and "th" for every other
\* day, 11, 12 and 13 included.
C24_OrdinalSuffix ==
    (call.fn = "format_date") =>
        /\ call.out.day = call.date.day
        /\ call.out.suffix =
              (IF call.date.day \in {1, 21, 31} THEN "st"
               ELSE IF call.date.day \in {2, 22} THEN "nd"
               ELSE IF call.date.day \in {3, 23} THEN "rd"
               ELSE "th")

\* C24 witness: the twelfth of a month was rendered with "th".
C24_Witness ==
    /\ call.fn = "format_date"
    /\ call.date.day = 12
    /\ call.out.suffix = "th"


\* The create call repeats a unique key of a stored record: the URL of a
\* source or an article, the URL or the video id of a video, the email of a
\* user.
RepeatsKey(c) ==
    CASE c.table = "sources" -> \E s \in c.pre.sources : s.url = c.args.url
      [] c.table = "articles" -> \E r \in c.pre.articles : r.url = c.args.url
      [] c.table = "videos" ->
            \E v \in c.pre.videos :
                v.url = c.args.url \/ v.video_id = c.args.video_id
      [] c.table = "user_settings" ->
            \E u \in c.pre.user_settings : u.email = c.args.email

\* C25: a repository create that repeats a stored unique key raises, and
\* after the caller's rollback the store holds exactly the records it held
\* before the call.
C25_DuplicateCreateRaises ==
    (last.op = "create" /\ RepeatsKey(last)) =>
        /\ last.raised
        /\ last.rolled_back => Tables = last.pre

\* C25 witness: a video create that repeated the video id of a stored video
\* under another URL raised and was rolled back.
C25_Witness ==
    /\ last.op = "create"
    /\ last.table = "videos"
    /\ \E v \in last.pre.videos :
          v.video_id = last.args.video_id /\ v.url # last.args.url
    /\ \A v \in last.pre.videos : v.url # last.args.url
    /\ last.raised
    /\ last.rolled_back
    /\ sess[1] = "ok"


\* The rows of a table that passes have processed without an exception.
Processed(table) ==
    {q[2] : q \in {r \in call.before : r[1] = table}}
        \cup (IF call.fn = "pass" /\ call.table = table THEN call.done ELSE {})

\* C26: a video that a transcript pass processed without an exception has a
\* transcript that is not null, is not among the videos without transcript,
\* and is not in the list of any later pass; so a video whose transcript is
\* null has not been processed by any pass.
C26_TranscriptRetryPrevention ==
    (call.fn \in {"pass", "rest"}) =>
        /\ \A id \in Processed("videos") :
              /\ BodyOf(bodies, "videos", id).text # NULL
              /\ \A v \in MissingBody(videos, bodies, "videos") : v.id # id
        /\ (call.fn = "pass" /\ call.table = "videos") =>
              \A k \in DOMAIN call.items :
                  <<"videos", call.items[k]>> \notin call.before
        /\ \A v \in MissingBody(videos, bodies, "videos") :
              v.id \notin Processed("videos")

\* C26 witness: a second transcript pass runs after a pass that stored the
\* placeholder for a video, and that video is not in its list.
C26_Witness ==
    /\ call.fn = "pass"
    /\ call.table = "videos"
    /\ call.n = 2
    /\ \E q \in call.before :
          /\ q[1] = "videos"
          /\ BodyOf(bodies, "videos", q[2]).text = TRANSCRIPT_UNAVAILABLE
          /\ \A k \in DOMAIN call.items : call.items[k] # q[2]

\* C30: no article that an earlier markdown pass went over, its fetch failed
\* or not, is in the list of a later pass.
C30_MarkdownProgress ==
    (call.fn = "pass" /\ call.table = "articles") =>
        \A k \in DOMAIN call.items :
            <<"articles", call.items[k]>> \notin call.seen


\* C28: a video whose transcript a pass recorded as unavailable is summarized
\* from its title and description, never from the placeholder.
C28_PlaceholderNotSummarized ==
    (last.op = "video_digest" /\ last.transcript = TRANSCRIPT_UNAVAILABLE) =>
        /\ last.input.content = last.description
        /\ last.input.content # TRANSCRIPT_UNAVAILABLE


\* The content item a digest was made from.
ItemOf(d) ==
    CHOOSE r \in (IF d.content_type = "article" THEN articles ELSE videos) :
        r.id = d.item_id

\* C27: every stored digest has the publish time of its content item as
\* created_at, and get_recent returns exactly the digests whose item was
\* published within the window.
C27_CreatedAtIsPublishTime ==
    /\ \A d \in digests : d.created_at = ItemOf(d).published_at
    /\ (last.op = "get_recent") =>
          last.result =
              {d \in digests :
                  ItemOf(d).published_at >= last.now - last.hours}

\* C27 witness: get_recent returned the digest of a recently published item
\* and left out the digest of an item published before the window.
C27_Witness ==
    /\ last.op = "get_recent"
    /\ \E d \in last.result :
          ItemOf(d).published_at >= last.now - last.hours
    /\ \E d \in digests \ last.result :
          ItemOf(d).published_at < last.now - last.hours


\* C29: the Source that _save_openai_articles resolves for a feed is the
\* record with the rss_url of that feed, so feeds with different URLs get
\* different records.
C29_FeedHasOwnSource ==
    (job[1].kind = "openai" /\ pc[1] \in {"check", "insert"}) =>
        \E s \in sources :
            s.id = src[1] /\ s.rss = CurGroup(1).args.rss

====
